---- MODULE Spec2Model ----
(***************************************************************************)
(* State machine of the tinker-mindmap editor: the zustand store           *)
(* (useAppStore: documents, active id, breadcrumb, undo/redo stacks) and   *)
(* the Canvas component's local React state (nodes, edges, the debounced   *)
(* save timer) together with the effects that couple them.                 *)
(*                                                                         *)
(* One action is one event handler run to completion, including the React  *)
(* re-render and the passive effects it triggers (store -> local sync on   *)
(* activeFileId / updatedAt change, and the auto-save effect that cancels  *)
(* and re-arms the timer whenever the local nodes/edges arrays change).    *)
(* The 300 ms timer expiring is an event of its own (SaveFire).            *)
(*                                                                         *)
(* Date.now() is treated as strictly increasing between events, so every   *)
(* store write to the active document changes its updatedAt and re-runs    *)
(* the sync effect.  uid() is a fresh-id counter.                          *)
(***************************************************************************)
EXTENDS Integers, Sequences, FiniteSets, TLC

(* ------------------------------ bounds --------------------------------- *)
\* documents ever created (Spec)
MaxFiles == 3
\* node ids ever drawn from uid()
MaxNodeIds == 2
\* snapshot-taking canvas operations in one run
MaxOps == 2
\* breadcrumb length
MaxCrumb == 2
\* documents ever created (SpecEdit)
EditMaxFiles == 2
\* node ids ever drawn from uid() (SpecStore)
StoreMaxNodes == 1
\* nodes handed to resolveCollisions called on its own
MaxRcNodes == 3
\* canvas operations and node ids ever drawn (SpecDelete)
DelMaxOps == 4
DelMaxNodes == 3
\* documents ever created (SpecFiles)
PinMaxFiles == 3
\* largest child count getChildPosition is called with (SpecPosition)
PosMaxCount == 3
\* snapshot-taking operations (SpecGrow)
GrowMaxOps == 3

(* ------------------------- program constants --------------------------- *)
MAX_UNDO == 50
NULL == -1
ROOT_ID == 0
APPROX_NODE_W == 240
APPROX_NODE_H == 120
COLLISION_PAD == 40
MAX_PASSES == 20
NODE_WIDTH == 200
NODE_HEIGHT == 60

LayoutModes == {"mindmap", "orgchart", "logic"}

VARIABLES
    files,          \* store: sequence of MindMapFile records
    activeFileId,   \* store: id of the active document, or NULL
    breadcrumb,     \* store: sequence of document ids
    undoStack,      \* store: sequence of Snapshot
    redoStack,      \* store: sequence of Snapshot
    layoutMode,     \* store: layout mode
    nodes,          \* Canvas local state (useNodesState)
    edges,          \* Canvas local state (useEdgesState)
    saveTimeout,    \* Canvas: pending debounced saves, each with its closure
    nextFile,       \* uid(): next fresh document id
    nextNode,       \* uid(): next fresh node id
    lastAct,        \* history: name of the last handler that ran
    lastArg,        \* history: the ids it was called with
    chain,          \* history: "op" / "undo" / "redo" / "none"
    opPre,          \* history: canvas pair before the last mutating operation
    opPost,         \* history: canvas pair after the last mutating operation
    portalReq,      \* history: last portal creation <<[file, node, sub]>>
    opCount,        \* history: number of snapshot-taking operations so far
    pushFrom,       \* history: <<active id before the pushBreadcrumb that just ran>>
    mid,            \* history: store states between the set() calls of the last undo / redo
    callArgs,       \* arguments of a function called on its own
    callResult      \* <<result>> of that call

storeVars == <<files, activeFileId, breadcrumb, undoStack, redoStack, layoutMode>>
canvasVars == <<nodes, edges, saveTimeout>>
uidVars == <<nextFile, nextNode>>
histVars == <<lastAct, lastArg, chain, opPre, opPost, portalReq, opCount, pushFrom, mid>>
callVars == <<callArgs, callResult>>
vars == <<files, activeFileId, breadcrumb, undoStack, redoStack, layoutMode,
          nodes, edges, saveTimeout, nextFile, nextNode,
          lastAct, chain, opPre, opPost, portalReq, opCount,
          pushFrom, mid, callArgs, callResult, lastArg>>

(* --------------------------- sequence helpers -------------------------- *)
Range(s) == {s[i] : i \in 1..Len(s)}

\* Array.prototype.slice(-n): the last n elements
SliceLast(s, n) ==
    IF Len(s) <= n THEN s ELSE SubSeq(s, Len(s) - n + 1, Len(s))

\* Array.prototype.slice(0, -1)
DropLast(s) == IF s = <<>> THEN <<>> ELSE SubSeq(s, 1, Len(s) - 1)

Pair(ns, es) == [nodes |-> ns, edges |-> es]

(* ------------------------------ documents ------------------------------ *)
RootNode ==
    [id |-> ROOT_ID, x |-> 0, y |-> 0, label |-> "Central Idea",
     isPortal |-> FALSE, subFileId |-> NULL, color |-> ""]

defaultFile(id, name, parentFileId, parentNodeId) ==
    [id |-> id, name |-> name, pinned |-> FALSE,
     parentFileId |-> parentFileId, parentNodeId |-> parentNodeId,
     nodes |-> <<RootNode>>, edges |-> <<>>]

FileIds(fs) == {fs[i].id : i \in 1..Len(fs)}

\* files.find((f) => f.id === id): <<f>> when found, <<>> otherwise
FindFile(fs, id) == SelectSeq(fs, LAMBDA f : f.id = id)

HasFile(fs, id) == FindFile(fs, id) # <<>>

ActiveFile == FindFile(files, activeFileId)

NodeIds(ns) == {ns[i].id : i \in 1..Len(ns)}

FindNode(ns, id) == SelectSeq(ns, LAMBDA n : n.id = id)

(* ------------------------- store: canvas helpers ----------------------- *)
\* setNodes / setEdges write into the document that is active when they run
storeSetNodes(fs, active, ns) ==
    [i \in 1..Len(fs) |-> IF fs[i].id = active THEN [fs[i] EXCEPT !.nodes = ns] ELSE fs[i]]

storeSetEdges(fs, active, es) ==
    [i \in 1..Len(fs) |-> IF fs[i].id = active THEN [fs[i] EXCEPT !.edges = es] ELSE fs[i]]

storeSetPair(fs, active, p) ==
    storeSetEdges(storeSetNodes(fs, active, p.nodes), active, p.edges)

(* ------------------------- store: undo / redo -------------------------- *)
\* pushUndo that puts the snapshot under the entries it keeps
pushUndoUnder(stack, snap) == <<snap>> \o SliceLast(stack, MAX_UNDO)

\* pushUndo: undoStack: [...s.undoStack.slice(-MAX_UNDO), snapshot]
pushUndo(stack, snap) == Append(SliceLast(stack, MAX_UNDO), snap)

\* undo that takes the oldest snapshot instead of the most recent one
undoOldest(fs, active, us, rs) ==
    LET file == FindFile(fs, active)[1]
        current == Pair(file.nodes, file.edges)
        prev == us[1]
    IN  [files |-> storeSetPair(fs, active, prev),
         undoStack |-> DropLast(us),
         redoStack |-> Append(rs, current)]

\* undo(), given a non-empty stack and a found file: the store state after
\* each of its three updates - set({undoStack, redoStack}), s.setNodes(prev.nodes),
\* s.setEdges(prev.edges).  "current" is read from the store's copy of the
\* active document.
undoSteps(fs, active, us, rs) ==
    LET file == FindFile(fs, active)[1]
        current == Pair(file.nodes, file.edges)
        prev == us[Len(us)]
        s1 == [files |-> fs, undoStack |-> DropLast(us), redoStack |-> Append(rs, current)]
        s2 == [s1 EXCEPT !.files = storeSetNodes(s1.files, active, prev.nodes)]
        s3 == [s2 EXCEPT !.files = storeSetEdges(s2.files, active, prev.edges)]
    IN  <<s1, s2, s3>>

undo(fs, active, us, rs) == undoSteps(fs, active, us, rs)[3]

redoSteps(fs, active, us, rs) ==
    LET file == FindFile(fs, active)[1]
        current == Pair(file.nodes, file.edges)
        next == rs[Len(rs)]
        s1 == [files |-> fs, redoStack |-> DropLast(rs), undoStack |-> Append(us, current)]
        s2 == [s1 EXCEPT !.files = storeSetNodes(s1.files, active, next.nodes)]
        s3 == [s2 EXCEPT !.files = storeSetEdges(s2.files, active, next.edges)]
    IN  <<s1, s2, s3>>

redo(fs, active, us, rs) == redoSteps(fs, active, us, rs)[3]

(* ------------------------- store: documents ---------------------------- *)
createFile(fs, id, name, parentFileId, parentNodeId) ==
    Append(fs, defaultFile(id, name, parentFileId, parentNodeId))

\* deleteFile: drops the document and its direct children
deleteFileRemaining(fs, id) ==
    SelectSeq(fs, LAMBDA f : f.id # id /\ f.parentFileId # id)

deleteFileActive(fs, active, id) ==
    LET remaining == deleteFileRemaining(fs, id)
    IN  IF active = id
        THEN (IF remaining # <<>> THEN remaining[1].id ELSE NULL)
        ELSE active

\* renameFile: maps over the files; a file with that id gets the name
renameFile(fs, id, name) ==
    [i \in 1..Len(fs) |-> IF fs[i].id = id THEN [fs[i] EXCEPT !.name = name] ELSE fs[i]]

\* Array.prototype.splice(k, 0, x), k counted from 1
InsertAt(seq, k, x) == SubSeq(seq, 1, k - 1) \o <<x>> \o SubSeq(seq, k, Len(seq))

\* Array.prototype.splice(k, 1), k counted from 1
RemoveAt(seq, k) == SubSeq(seq, 1, k - 1) \o SubSeq(seq, k + 1, Len(seq))

\* findIndex((f) => f.id === id), counted from 1; 0 when there is none
FindIndex(fs, id) ==
    IF \E i \in 1..Len(fs) : fs[i].id = id
    THEN CHOOSE i \in 1..Len(fs) : fs[i].id = id /\ \A j \in 1..(i - 1) : fs[j].id # id
    ELSE 0

Min(S) == CHOOSE m \in S : \A n \in S : m <= n
Max(S) == CHOOSE m \in S : \A n \in S : m >= n

\* togglePin that puts the file back at the end of the list
togglePinAppend(fs, id) ==
    LET idx == FindIndex(fs, id)
    IN  IF idx = 0 THEN fs
        ELSE Append(RemoveAt(fs, idx), [fs[idx] EXCEPT !.pinned = ~fs[idx].pinned])

\* togglePin: flips the flag, takes the file out and puts it back at the
\* front of its parentFileId group (pinned) or before the group's first
\* unpinned file, else after the group's last file (unpinned)
togglePin(fs, id) ==
    LET idx == FindIndex(fs, id)
        file == fs[idx]
        updated == [file EXCEPT !.pinned = ~file.pinned]
        next == RemoveAt(fs, idx)
        groupIndices == {i \in 1..Len(next) : next[i].parentFileId = file.parentFileId}
        unpinnedInGroup == {gi \in groupIndices : ~next[gi].pinned}
        insertIndex == IF updated.pinned THEN Min(groupIndices)
                       ELSE IF unpinnedInGroup # {} THEN Min(unpinnedInGroup)
                       ELSE Max(groupIndices) + 1
    IN  IF idx = 0 THEN fs
        ELSE IF groupIndices = {} THEN Append(next, updated)
        ELSE InsertAt(next, insertIndex, updated)

\* reorderFiles: within one parent group and one pinned class, takes the
\* source out and puts it back just before the target
reorderFiles(fs, sourceId, targetId) ==
    LET sourceIndex == FindIndex(fs, sourceId)
        targetIndex == FindIndex(fs, targetId)
        source == fs[sourceIndex]
        target == fs[targetIndex]
        next == RemoveAt(fs, sourceIndex)
        newTargetIndex == FindIndex(next, targetId)
    IN  IF sourceId = targetId THEN fs
        ELSE IF sourceIndex = 0 \/ targetIndex = 0 THEN fs
        ELSE IF source.parentFileId # target.parentFileId THEN fs
        ELSE IF source.pinned # target.pinned THEN fs
        ELSE IF newTargetIndex = 0 THEN fs
        ELSE InsertAt(next, newTargetIndex, source)

\* popBreadcrumb: bc.pop(); activeFileId: bc[bc.length - 1] ?? files[0]?.id ?? null
popBreadcrumbActive(fs, bc) ==
    LET bc2 == DropLast(bc)
    IN  IF bc2 # <<>> THEN bc2[Len(bc2)]
        ELSE IF fs # <<>> THEN fs[1].id ELSE NULL

\* updateNodes(updater) with a label / colour updater
mapLabel(ns, id, label) ==
    [i \in 1..Len(ns) |-> IF ns[i].id = id THEN [ns[i] EXCEPT !.label = label] ELSE ns[i]]

mapColor(ns, id, color) ==
    [i \in 1..Len(ns) |-> IF ns[i].id = id THEN [ns[i] EXCEPT !.color = color] ELSE ns[i]]

(* ------------------------ Canvas: position strategy -------------------- *)
\* Math.cos(angle) * 220 and Math.sin(angle) * 220 for
\* angle = (2*PI / max(n + 1, 6)) * n - PI / 2, rounded to the nearest integer
MindmapDX(n) ==
    CASE n = 0 -> 0    [] n = 1 -> 191  [] n = 2 -> 191
      [] n = 3 -> 0    [] n = 4 -> -191 [] n = 5 -> -191
      [] n = 6 -> -172 [] n = 7 -> -156 [] n = 8 -> -141

MindmapDY(n) ==
    CASE n = 0 -> -220 [] n = 1 -> -110 [] n = 2 -> 110
      [] n = 3 -> 220  [] n = 4 -> 110  [] n = 5 -> -110
      [] n = 6 -> -137 [] n = 7 -> -156 [] n = 8 -> -169

\* getChildPosition that returns the first slot of the row / column
getChildPositionFirst(parent, existingSiblingCount, mode) ==
    CASE mode = "mindmap" ->
            [x |-> parent.x + MindmapDX(existingSiblingCount),
             y |-> parent.y + MindmapDY(existingSiblingCount)]
      [] mode = "orgchart" ->
            [x |-> parent.x - (existingSiblingCount * 280) \div 2, y |-> parent.y + 170]
      [] mode = "logic" ->
            [x |-> parent.x + 300, y |-> parent.y - (existingSiblingCount * 120) \div 2]

getChildPosition(parent, existingSiblingCount, mode) ==
    CASE mode = "mindmap" ->
            [x |-> parent.x + MindmapDX(existingSiblingCount),
             y |-> parent.y + MindmapDY(existingSiblingCount)]
      [] mode = "orgchart" ->
            \* startX = parent.x - (n * 280) / 2;  x = startX + n * 280
            [x |-> (parent.x - (existingSiblingCount * 280) \div 2) + existingSiblingCount * 280,
             y |-> parent.y + 170]
      [] mode = "logic" ->
            \* startY = parent.y - (n * 120) / 2;  y = startY + n * 120
            [x |-> parent.x + 300,
             y |-> (parent.y - (existingSiblingCount * 120) \div 2) + existingSiblingCount * 120]

getSiblingPosition(selected, mode) ==
    CASE mode = "mindmap" -> [x |-> selected.x, y |-> selected.y + 120]
      [] mode = "orgchart" -> [x |-> selected.x + 280, y |-> selected.y]
      [] mode = "logic" -> [x |-> selected.x, y |-> selected.y + 120]

edgeTemplate(mode) ==
    [type |-> IF mode \in {"orgchart", "logic"} THEN "step" ELSE "smoothstep",
     sourceHandle |-> CASE mode = "orgchart" -> "bottom" [] mode = "logic" -> "right" [] OTHER -> "",
     targetHandle |-> CASE mode = "orgchart" -> "top" [] mode = "logic" -> "left" [] OTHER -> ""]

(* ------------------------ Canvas: collision resolver ------------------- *)
overlaps(a, b) ==
    /\ a.x < b.x + APPROX_NODE_W
    /\ a.x + APPROX_NODE_W > b.x
    /\ a.y < b.y + APPROX_NODE_H
    /\ a.y + APPROX_NODE_H > b.y

\* a step that also pushes the locked node
pushStepNoLock(ns, mode, lockedId, i, j) ==
    LET a == ns[i]
        b == ns[j]
        pushRight == b.x + APPROX_NODE_W \div 2 >= a.x + APPROX_NODE_W \div 2
        pushDown == b.y + APPROX_NODE_H \div 2 >= a.y + APPROX_NODE_H \div 2
        dx == (APPROX_NODE_W + COLLISION_PAD) * (IF pushRight THEN 1 ELSE -1)
        dy == (APPROX_NODE_H + COLLISION_PAD) * (IF pushDown THEN 1 ELSE -1)
    IN  IF i = j \/ ~overlaps(a, b)
        THEN [ns |-> ns, moved |-> FALSE]
        ELSE [ns |-> IF mode = "orgchart"
                     THEN [ns EXCEPT ![j].x = b.x + dx]
                     ELSE [ns EXCEPT ![j].y = b.y + dy],
              moved |-> TRUE]

\* a step that pushes node j toward node i: pushRight and pushDown test > for >=
pushStepStrict(ns, mode, lockedId, i, j) ==
    LET a == ns[i]
        b == ns[j]
        pushRight == b.x + APPROX_NODE_W \div 2 > a.x + APPROX_NODE_W \div 2
        pushDown == b.y + APPROX_NODE_H \div 2 > a.y + APPROX_NODE_H \div 2
        dx == (APPROX_NODE_W + COLLISION_PAD) * (IF pushRight THEN 1 ELSE -1)
        dy == (APPROX_NODE_H + COLLISION_PAD) * (IF pushDown THEN 1 ELSE -1)
    IN  IF i = j \/ b.id = lockedId \/ ~overlaps(a, b)
        THEN [ns |-> ns, moved |-> FALSE]
        ELSE [ns |-> IF mode = "orgchart"
                     THEN [ns EXCEPT ![j].x = b.x + dx]
                     ELSE [ns EXCEPT ![j].y = b.y + dy],
              moved |-> TRUE]

\* a step that skips the pairs whose first node is the locked one as well
pushStepSkipLocked(ns, mode, lockedId, i, j) ==
    LET a == ns[i]
        b == ns[j]
        pushRight == b.x + APPROX_NODE_W \div 2 >= a.x + APPROX_NODE_W \div 2
        pushDown == b.y + APPROX_NODE_H \div 2 >= a.y + APPROX_NODE_H \div 2
        dx == (APPROX_NODE_W + COLLISION_PAD) * (IF pushRight THEN 1 ELSE -1)
        dy == (APPROX_NODE_H + COLLISION_PAD) * (IF pushDown THEN 1 ELSE -1)
    IN  IF i = j \/ a.id = lockedId \/ b.id = lockedId \/ ~overlaps(a, b)
        THEN [ns |-> ns, moved |-> FALSE]
        ELSE [ns |-> IF mode = "orgchart"
                     THEN [ns EXCEPT ![j].x = b.x + dx]
                     ELSE [ns EXCEPT ![j].y = b.y + dy],
              moved |-> TRUE]

\* one (i, j) step of the double loop: node j is pushed away from node i
pushStep(ns, mode, lockedId, i, j) ==
    LET a == ns[i]
        b == ns[j]
        pushRight == b.x + APPROX_NODE_W \div 2 >= a.x + APPROX_NODE_W \div 2
        pushDown == b.y + APPROX_NODE_H \div 2 >= a.y + APPROX_NODE_H \div 2
        dx == (APPROX_NODE_W + COLLISION_PAD) * (IF pushRight THEN 1 ELSE -1)
        dy == (APPROX_NODE_H + COLLISION_PAD) * (IF pushDown THEN 1 ELSE -1)
    IN  IF i = j \/ b.id = lockedId \/ ~overlaps(a, b)
        THEN [ns |-> ns, moved |-> FALSE]
        ELSE [ns |-> IF mode = "orgchart"
                     THEN [ns EXCEPT ![j].x = b.x + dx]
                     ELSE [ns EXCEPT ![j].y = b.y + dy],
              moved |-> TRUE]

RECURSIVE onePass(_, _, _, _, _)
\* k enumerates the ordered pairs (i, j) row by row
onePass(ns, mode, lockedId, k, moved) ==
    IF k >= Len(ns) * Len(ns) THEN [ns |-> ns, moved |-> moved]
    ELSE LET r == pushStep(ns, mode, lockedId, (k \div Len(ns)) + 1, (k % Len(ns)) + 1)
         IN  onePass(r.ns, mode, lockedId, k + 1, moved \/ r.moved)

\* the pass loop with the test iter <= 20 in place of iter < 20
RECURSIVE passesOneMore(_, _, _, _)
passesOneMore(ns, mode, lockedId, iter) ==
    IF iter > MAX_PASSES THEN [ns |-> ns, iters |-> iter, settled |-> FALSE]
    ELSE LET r == onePass(ns, mode, lockedId, 0, FALSE)
         IN  IF r.moved THEN passesOneMore(r.ns, mode, lockedId, iter + 1)
             ELSE [ns |-> r.ns, iters |-> iter + 1, settled |-> TRUE]

\* for (let iter = 0; iter < 20; iter++) { ...; if (!moved) break; }: the
\* nodes it leaves, the number of passes it ran, and whether it left by the
\* break (settled) or by the loop test
RECURSIVE passes(_, _, _, _)
passes(ns, mode, lockedId, iter) ==
    IF iter >= MAX_PASSES THEN [ns |-> ns, iters |-> iter, settled |-> FALSE]
    ELSE LET r == onePass(ns, mode, lockedId, 0, FALSE)
         IN  IF r.moved THEN passes(r.ns, mode, lockedId, iter + 1)
             ELSE [ns |-> r.ns, iters |-> iter + 1, settled |-> TRUE]

resolveCollisions(inputNodes, mode, lockedId) == passes(inputNodes, mode, lockedId, 0).ns

(* ------------------------ layout engine (applyLayout) ------------------ *)
\* dagre.layout is library code: it is abstracted to a grid, rank = longest
\* edge path into the node (bounded by the node count), order = index among
\* the nodes of that rank; applyLayout's own re-centering (pos - size / 2) is
\* applied to the grid cell centres.
Max2(a, b) == IF a >= b THEN a ELSE b

RECURSIVE MaxOver(_)
MaxOver(S) == IF S = {} THEN 0 ELSE LET v == CHOOSE v \in S : TRUE IN Max2(v, MaxOver(S \ {v}))

RECURSIVE dagreRank(_, _, _)
dagreRank(es, id, depth) ==
    IF depth = 0 THEN 0
    ELSE MaxOver({dagreRank(es, es[k].source, depth - 1) + 1 :
                    k \in {k \in 1..Len(es) : es[k].target = id /\ es[k].source # id}})

LayoutPresetRankSep(mode) ==
    CASE mode = "mindmap" -> 140 [] mode = "orgchart" -> 150 [] mode = "logic" -> 170

LayoutPresetNodeSep(mode) ==
    CASE mode = "mindmap" -> 80 [] mode = "orgchart" -> 120 [] mode = "logic" -> 120

\* applyLayout that returns the laid-out nodes without the edges
applyLayoutNoEdges(ns, es, mode) ==
    IF ns = <<>> THEN Pair(ns, es)
    ELSE Pair([i \in 1..Len(ns) |-> [ns[i] EXCEPT !.x = 40, !.y = 40 + (i - 1) * NODE_HEIGHT]], <<>>)

applyLayout(ns, es, mode) ==
    IF ns = <<>> THEN Pair(ns, es)
    ELSE LET rk(i) == dagreRank(es, ns[i].id, Len(ns))
             ord(i) == Cardinality({j \in 1..(i - 1) : rk(j) = rk(i)})
             cxAlong(i) == 40 + NODE_WIDTH \div 2 + rk(i) * (NODE_WIDTH + LayoutPresetRankSep(mode))
             cyAcross(i) == 40 + NODE_HEIGHT \div 2 + ord(i) * (NODE_HEIGHT + LayoutPresetNodeSep(mode))
             cxAcross(i) == 40 + NODE_WIDTH \div 2 + ord(i) * (NODE_WIDTH + LayoutPresetNodeSep(mode))
             cyAlong(i) == 40 + NODE_HEIGHT \div 2 + rk(i) * (NODE_HEIGHT + LayoutPresetRankSep(mode))
             posx(i) == IF mode = "orgchart" THEN cxAcross(i) ELSE cxAlong(i)
             posy(i) == IF mode = "orgchart" THEN cyAlong(i) ELSE cyAcross(i)
         IN  Pair([i \in 1..Len(ns) |->
                     [ns[i] EXCEPT !.x = posx(i) - NODE_WIDTH \div 2,
                                   !.y = posy(i) - NODE_HEIGHT \div 2]],
                  es)

(* ------------------------ Canvas: edge construction -------------------- *)
EdgeId(kind, a, ah, b, bh) == [kind |-> kind, a |-> a, ah |-> ah, b |-> b, bh |-> bh]

\* an edge `e-${source}-${target}` carrying the layout mode's template
templEdge(source, target, mode) ==
    [id |-> EdgeId("e", source, "", target, ""), source |-> source, target |-> target,
     type |-> edgeTemplate(mode).type,
     sourceHandle |-> edgeTemplate(mode).sourceHandle,
     targetHandle |-> edgeTemplate(mode).targetHandle]

\* reactflow addEdge: an edge with the same source, target and handles is not
\* added twice
connectionExists(e, es) ==
    \E k \in 1..Len(es) :
        /\ es[k].source = e.source /\ es[k].target = e.target
        /\ es[k].sourceHandle = e.sourceHandle
        /\ es[k].targetHandle = e.targetHandle

addEdge(e, es) == IF connectionExists(e, es) THEN es ELSE Append(es, e)

\* onConnect: addEdge({...conn, ...edgeTemplate(layoutMode, theme)}, eds); the
\* id is reactflow's `reactflow__edge-${source}${sourceHandle}-${target}${targetHandle}`
connectEdge(conn, mode) ==
    LET sh == IF mode = "mindmap" THEN conn.sourceHandle ELSE edgeTemplate(mode).sourceHandle
        th == IF mode = "mindmap" THEN conn.targetHandle ELSE edgeTemplate(mode).targetHandle
    IN  [id |-> EdgeId("reactflow__edge", conn.source, sh, conn.target, th),
         source |-> conn.source, target |-> conn.target,
         type |-> edgeTemplate(mode).type, sourceHandle |-> sh, targetHandle |-> th]

NewNode(id, pos, label, color) ==
    [id |-> id, x |-> pos.x, y |-> pos.y, label |-> label,
     isPortal |-> FALSE, subFileId |-> NULL, color |-> color]

CountFrom(es, id) == Cardinality({k \in 1..Len(es) : es[k].source = id})

\* edges.find((ed) => ed.target === id): <<edge>> or <<>>
FindParentEdge(es, id) ==
    LET hit == SelectSeq(es, LAMBDA e : e.target = id)
    IN  IF hit = <<>> THEN <<>> ELSE <<hit[1]>>

(* ------------------------ Canvas: handleNodeAction --------------------- *)
addChild(ns, es, mode, nodeId, childId) ==
    LET node == FindNode(ns, nodeId)[1]
        pos == getChildPosition(node, CountFrom(es, nodeId), mode)
        newNode == NewNode(childId, pos, "Child", "")
    IN  Pair(resolveCollisions(Append(ns, newNode), mode, childId),
             addEdge(templEdge(nodeId, childId, mode), es))

\* addParent that keeps the edges into the node next to the new ones
addParentKeep(ns, es, mode, nodeId, parentId) ==
    LET node == FindNode(ns, nodeId)[1]
        newParent == NewNode(parentId, [x |-> node.x, y |-> node.y - 150], "Parent", "")
        currentParentEdges == SelectSeq(es, LAMBDA e : e.target = nodeId)
        newParentEdges == [k \in 1..Len(currentParentEdges) |->
                             templEdge(currentParentEdges[k].source, parentId, mode)]
    IN  Pair(Append(ns, newParent),
             es \o <<templEdge(parentId, nodeId, mode)>> \o newParentEdges)

addParent(ns, es, mode, nodeId, parentId) ==
    LET node == FindNode(ns, nodeId)[1]
        newParent == NewNode(parentId, [x |-> node.x, y |-> node.y - 150], "Parent", "")
        currentParentEdges == SelectSeq(es, LAMBDA e : e.target = nodeId)
        updatedEdges == SelectSeq(es, LAMBDA e : e.target # nodeId)
        newParentEdges == [k \in 1..Len(currentParentEdges) |->
                             templEdge(currentParentEdges[k].source, parentId, mode)]
    IN  Pair(Append(ns, newParent),
             updatedEdges \o <<templEdge(parentId, nodeId, mode)>> \o newParentEdges)

addSibling(ns, es, mode, nodeId, siblingId) ==
    LET node == FindNode(ns, nodeId)[1]
        parentEdge == FindParentEdge(es, nodeId)
        parentNode == IF parentEdge = <<>> THEN <<>> ELSE FindNode(ns, parentEdge[1].source)
        pos == IF parentNode # <<>>
               THEN getChildPosition(parentNode[1], CountFrom(es, parentNode[1].id), mode)
               ELSE getSiblingPosition(node, mode)
        newNode == NewNode(siblingId, pos, "Sibling", node.color)
        newEdges == IF parentEdge # <<>>
                    THEN <<templEdge(parentEdge[1].source, siblingId, mode)>>
                    ELSE <<>>
    IN  Pair(resolveCollisions(Append(ns, newNode), mode, siblingId), es \o newEdges)

\* duplicate that copies the label only: default colour, no portal flag
duplicatePlain(ns, es, nodeId, duplicateId) ==
    LET node == FindNode(ns, nodeId)[1]
    IN  Pair(Append(ns, NewNode(duplicateId, [x |-> node.x + 40, y |-> node.y + 40],
                                node.label \o " (copy)", "")),
             es)

duplicate(ns, es, nodeId, duplicateId) ==
    LET node == FindNode(ns, nodeId)[1]
    IN  Pair(Append(ns, [node EXCEPT !.id = duplicateId, !.x = node.x + 40, !.y = node.y + 40,
                                      !.label = node.label \o " (copy)"]),
             es)

\* delete that drops only the edges leaving the node
deleteNodeSourceOnly(ns, es, nodeId) ==
    Pair(SelectSeq(ns, LAMBDA n : n.id # nodeId),
         SelectSeq(es, LAMBDA e : e.source # nodeId))

deleteNode(ns, es, nodeId) ==
    Pair(SelectSeq(ns, LAMBDA n : n.id # nodeId),
         SelectSeq(es, LAMBDA e : e.source # nodeId /\ e.target # nodeId))

portalOn(ns, nodeId, subFileId) ==
    [i \in 1..Len(ns) |-> IF ns[i].id = nodeId
                          THEN [ns[i] EXCEPT !.isPortal = TRUE, !.subFileId = subFileId]
                          ELSE ns[i]]

portalOff(ns, nodeId) ==
    [i \in 1..Len(ns) |-> IF ns[i].id = nodeId THEN [ns[i] EXCEPT !.isPortal = FALSE] ELSE ns[i]]

\* snapshot(): pushUndo({ nodes: [...nodes], edges: [...edges] }) from the
\* canvas arrays of the current render
snapshot(ns, es) == Pair(ns, es)

(* --------------------- Canvas: render and effects ---------------------- *)
\* The re-render after a handler.  files2/active2 are the store values the
\* handler left; bump says the handler wrote the active document (its
\* updatedAt changed); localSet says the handler called the local
\* setNodes/setEdges with new arrays local2.
\*  - sync effects: when activeFileId or activeFile.updatedAt changed and the
\*    active document exists, local state is replaced by the document's;
\*  - auto-save effect: whenever the local arrays changed, the cleanup clears
\*    the pending timer and, if activeFileId is set, a new timer is armed
\*    whose closure holds the arrays of that render.
Render(files2, active2, bump, localSet, local2) ==
    LET af == FindFile(files2, active2)
        sync == af # <<>> /\ (active2 # activeFileId \/ bump)
    IN  IF sync
        THEN /\ nodes' = af[1].nodes
             /\ edges' = af[1].edges
             /\ saveTimeout' = <<Pair(af[1].nodes, af[1].edges)>>
        ELSE IF localSet
             THEN /\ nodes' = local2.nodes
                  /\ edges' = local2.edges
                  /\ saveTimeout' = IF active2 # NULL THEN <<local2>> ELSE <<>>
             ELSE UNCHANGED canvasVars

NoHistArg(name, arg) ==
    /\ lastAct' = name
    /\ lastArg' = arg
    /\ chain' = "none"
    /\ opPre' = <<>>
    /\ opPost' = <<>>
    /\ portalReq' = <<>>
    /\ opCount' = opCount
    /\ pushFrom' = <<>>
    /\ mid' = <<>>
    /\ UNCHANGED callVars

NoHist(name) == NoHistArg(name, <<>>)

Init ==
    /\ files = <<>>
    /\ activeFileId = NULL
    /\ breadcrumb = <<>>
    /\ undoStack = <<>>
    /\ redoStack = <<>>
    /\ layoutMode = "mindmap"
    /\ nodes = <<>>
    /\ edges = <<>>
    /\ saveTimeout = <<>>
    /\ nextFile = 1
    /\ nextNode = 1
    /\ lastAct = "init"
    /\ lastArg = <<>>
    /\ chain = "none"
    /\ opPre = <<>>
    /\ opPost = <<>>
    /\ portalReq = <<>>
    /\ opCount = 0
    /\ pushFrom = <<>>
    /\ mid = <<>>
    /\ callArgs = <<>>
    /\ callResult = <<>>

(* ------------------------ store: document actions ---------------------- *)
\* store.createFile() on its own: appends the document and makes it active
CreateFile ==
    /\ files' = createFile(files, nextFile, "Untitled Map", NULL, NULL)
    /\ activeFileId' = nextFile
    /\ nextFile' = nextFile + 1
    /\ UNCHANGED <<breadcrumb, undoStack, redoStack, layoutMode, nextNode>>
    /\ Render(files', activeFileId', FALSE, FALSE, Pair(nodes, edges))
    /\ NoHist("createFile")

\* AppShell mount effect / Sidebar handleNew: createFile(); setActiveFile(id)
HandleNew ==
    /\ files' = createFile(files, nextFile, "Untitled Map", NULL, NULL)
    /\ activeFileId' = nextFile
    /\ breadcrumb' = <<nextFile>>
    /\ undoStack' = <<>>
    /\ redoStack' = <<>>
    /\ nextFile' = nextFile + 1
    /\ UNCHANGED <<layoutMode, nextNode>>
    /\ Render(files', activeFileId', FALSE, FALSE, Pair(nodes, edges))
    /\ NoHist("handleNew")

DeleteFile(id) ==
    /\ files' = deleteFileRemaining(files, id)
    /\ activeFileId' = deleteFileActive(files, activeFileId, id)
    /\ UNCHANGED <<breadcrumb, undoStack, redoStack, layoutMode, uidVars>>
    /\ Render(files', activeFileId', FALSE, FALSE, Pair(nodes, edges))
    /\ NoHistArg("deleteFile", <<id>>)

SetActiveFile(id) ==
    /\ activeFileId' = id
    /\ breadcrumb' = <<id>>
    /\ undoStack' = <<>>
    /\ redoStack' = <<>>
    /\ UNCHANGED <<files, layoutMode, uidVars>>
    /\ Render(files, id, FALSE, FALSE, Pair(nodes, edges))
    /\ NoHistArg("setActiveFile", <<id>>)

PushBreadcrumb(id) ==
    /\ activeFileId' = id
    /\ breadcrumb' = Append(breadcrumb, id)
    /\ undoStack' = <<>>
    /\ redoStack' = <<>>
    /\ UNCHANGED <<files, layoutMode, uidVars>>
    /\ Render(files, id, FALSE, FALSE, Pair(nodes, edges))
    /\ lastAct' = "pushBreadcrumb"
    /\ lastArg' = <<id>>
    /\ chain' = "none" /\ opPre' = <<>> /\ opPost' = <<>> /\ portalReq' = <<>>
    /\ opCount' = opCount
    /\ pushFrom' = <<activeFileId>>
    /\ mid' = <<>>
    /\ UNCHANGED callVars

PopBreadcrumb ==
    /\ breadcrumb' = DropLast(breadcrumb)
    /\ activeFileId' = popBreadcrumbActive(files, breadcrumb)
    /\ undoStack' = <<>>
    /\ redoStack' = <<>>
    /\ UNCHANGED <<files, layoutMode, uidVars>>
    /\ Render(files, activeFileId', FALSE, FALSE, Pair(nodes, edges))
    /\ NoHist("popBreadcrumb")

\* EditableNode handleDoubleClick on a portal node for which
\* files.find((f) => f.parentNodeId === id) finds a document:
\* pushBreadcrumb(subFile.id).  (Otherwise it only opens the label editor.)
HandleDoubleClick(nodeId) ==
    LET subFile == SelectSeq(files, LAMBDA f : f.parentNodeId = nodeId)
    IN  /\ FindNode(nodes, nodeId)[1].isPortal
        /\ subFile # <<>>
        /\ activeFileId' = subFile[1].id
        /\ breadcrumb' = Append(breadcrumb, subFile[1].id)
        /\ undoStack' = <<>>
        /\ redoStack' = <<>>
        /\ UNCHANGED <<files, layoutMode, uidVars>>
        /\ Render(files, subFile[1].id, FALSE, FALSE, Pair(nodes, edges))
        /\ NoHistArg("doubleClick", <<nodeId>>)

\* The breadcrumb button i (0-based) is clicked: the handler starts and reads
\* const store = useAppStore.getState().  callArgs holds the locals of the
\* running handler: i and the state object it fetched.
ClickBreadcrumb(i) ==
    /\ callArgs = <<>>
    /\ Len(breadcrumb) > 1
    /\ i < Len(breadcrumb)
    /\ callArgs' = <<[i |-> i, store |-> [breadcrumb |-> breadcrumb]]>>
    /\ lastAct' = "crumbClick"
    /\ lastArg' = <<i>>
    /\ UNCHANGED <<storeVars, canvasVars, uidVars, callResult,
                   chain, opPre, opPost, portalReq, opCount, pushFrom, mid>>

\* One turn of while (store.breadcrumb.length > i + 1) store.popBreadcrumb():
\* the test reads the fetched state object, popBreadcrumb sets the store.
\* When the test fails the handler returns and the canvas re-renders.
ClickLoop ==
    /\ callArgs # <<>>
    /\ IF Len(callArgs[1].store.breadcrumb) > callArgs[1].i + 1
       THEN /\ breadcrumb' = DropLast(breadcrumb)
            /\ activeFileId' = popBreadcrumbActive(files, breadcrumb)
            /\ undoStack' = <<>>
            /\ redoStack' = <<>>
            /\ lastAct' = "crumbPop"
            /\ UNCHANGED <<files, layoutMode, canvasVars, callArgs>>
       ELSE /\ callArgs' = <<>>
            /\ lastAct' = "crumbDone"
            /\ UNCHANGED <<storeVars, canvasVars>>
    /\ UNCHANGED <<uidVars, callResult, lastArg,
                   chain, opPre, opPost, portalReq, opCount, pushFrom, mid>>

\* renameFile / togglePin stamp the file's updatedAt, which re-runs the
\* updatedAt sync effect when the file is the active one
FileNames == {"Renamed"}

RenameFile(id, name) ==
    /\ files' = renameFile(files, id, name)
    /\ UNCHANGED <<activeFileId, breadcrumb, undoStack, redoStack, layoutMode, uidVars>>
    /\ Render(files', activeFileId, id = activeFileId, FALSE, Pair(nodes, edges))
    /\ NoHistArg("renameFile", <<id>>)

TogglePin(id) ==
    /\ files' = togglePin(files, id)
    /\ UNCHANGED <<activeFileId, breadcrumb, undoStack, redoStack, layoutMode, uidVars>>
    /\ Render(files', activeFileId, id = activeFileId, FALSE, Pair(nodes, edges))
    /\ NoHistArg("togglePin", <<id>>)

ReorderFiles(sourceId, targetId) ==
    /\ files' = reorderFiles(files, sourceId, targetId)
    /\ UNCHANGED <<activeFileId, breadcrumb, undoStack, redoStack, layoutMode, uidVars, canvasVars>>
    /\ NoHistArg("reorderFiles", <<sourceId, targetId>>)

SetLayoutMode(m) ==
    /\ layoutMode' = m
    /\ UNCHANGED <<files, activeFileId, breadcrumb, undoStack, redoStack, uidVars, canvasVars>>
    /\ NoHist("setLayoutMode")

(* --------------------------- undo / redo actions ----------------------- *)
\* undo that tests the stack only after it has pushed the document's pair on
\* the redo stack
UndoLateTest ==
    /\ lastAct' = "undo"
    /\ lastArg' = <<>>
    /\ opCount' = opCount
    /\ portalReq' = <<>>
    /\ pushFrom' = <<>>
    /\ UNCHANGED <<activeFileId, breadcrumb, layoutMode, uidVars, callVars>>
    /\ IF ActiveFile = <<>>
       THEN /\ UNCHANGED <<files, undoStack, redoStack, canvasVars>>
            /\ mid' = <<>>
            /\ chain' = "none" /\ opPre' = <<>> /\ opPost' = <<>>
       ELSE IF undoStack = <<>>
       THEN /\ redoStack' = Append(redoStack, Pair(ActiveFile[1].nodes, ActiveFile[1].edges))
            /\ UNCHANGED <<files, undoStack, canvasVars>>
            /\ mid' = <<>>
            /\ chain' = "none" /\ opPre' = <<>> /\ opPost' = <<>>
       ELSE LET r == undo(files, activeFileId, undoStack, redoStack)
            IN  /\ files' = r.files
                /\ mid' = SubSeq(undoSteps(files, activeFileId, undoStack, redoStack), 1, 2)
                /\ undoStack' = r.undoStack
                /\ redoStack' = r.redoStack
                /\ Render(r.files, activeFileId, TRUE, FALSE, Pair(nodes, edges))
                /\ IF chain = "op"
                   THEN chain' = "undo" /\ UNCHANGED <<opPre, opPost>>
                   ELSE chain' = "none" /\ opPre' = <<>> /\ opPost' = <<>>

Undo ==
    /\ lastAct' = "undo"
    /\ lastArg' = <<>>
    /\ opCount' = opCount
    /\ portalReq' = <<>>
    /\ pushFrom' = <<>>
    /\ UNCHANGED <<activeFileId, breadcrumb, layoutMode, uidVars, callVars>>
    /\ IF undoStack = <<>> \/ ActiveFile = <<>>
       THEN /\ UNCHANGED <<files, undoStack, redoStack, canvasVars>>
            /\ mid' = <<>>
            /\ chain' = "none" /\ opPre' = <<>> /\ opPost' = <<>>
       ELSE LET r == undo(files, activeFileId, undoStack, redoStack)
            IN  /\ files' = r.files
                /\ mid' = SubSeq(undoSteps(files, activeFileId, undoStack, redoStack), 1, 2)
                /\ undoStack' = r.undoStack
                /\ redoStack' = r.redoStack
                /\ Render(r.files, activeFileId, TRUE, FALSE, Pair(nodes, edges))
                /\ IF chain = "op"
                   THEN chain' = "undo" /\ UNCHANGED <<opPre, opPost>>
                   ELSE chain' = "none" /\ opPre' = <<>> /\ opPost' = <<>>

Redo ==
    /\ lastAct' = "redo"
    /\ lastArg' = <<>>
    /\ opCount' = opCount
    /\ portalReq' = <<>>
    /\ pushFrom' = <<>>
    /\ UNCHANGED <<activeFileId, breadcrumb, layoutMode, uidVars, callVars>>
    /\ IF redoStack = <<>> \/ ActiveFile = <<>>
       THEN /\ UNCHANGED <<files, undoStack, redoStack, canvasVars>>
            /\ mid' = <<>>
            /\ chain' = "none" /\ opPre' = <<>> /\ opPost' = <<>>
       ELSE LET r == redo(files, activeFileId, undoStack, redoStack)
            IN  /\ files' = r.files
                /\ mid' = SubSeq(redoSteps(files, activeFileId, undoStack, redoStack), 1, 2)
                /\ undoStack' = r.undoStack
                /\ redoStack' = r.redoStack
                /\ Render(r.files, activeFileId, TRUE, FALSE, Pair(nodes, edges))
                /\ IF chain = "undo"
                   THEN chain' = "redo" /\ UNCHANGED <<opPre, opPost>>
                   ELSE chain' = "none" /\ opPre' = <<>> /\ opPost' = <<>>

(* ------------------------- debounced save expiry ----------------------- *)
\* the files the store publishes after each of the callback's two set() calls
saveSteps(fs, active, p) ==
    LET s1 == storeSetNodes(fs, active, p.nodes)
    IN  <<s1, storeSetEdges(s1, active, p.edges)>>

\* The timer callback: storeSetNodes(nodes); storeSetEdges(edges) with the
\* arrays of its closure, into whichever document is active now.  The
\* updatedAt sync that follows hands the canvas the very arrays it already
\* holds, so the local state does not change and no timer is re-armed.
SaveFire ==
    /\ saveTimeout # <<>>
    /\ files' = saveSteps(files, activeFileId, saveTimeout[1])[2]
    /\ saveTimeout' = Tail(saveTimeout)
    /\ UNCHANGED <<activeFileId, breadcrumb, undoStack, redoStack, layoutMode,
                   nodes, edges, uidVars, chain, opPre, opPost, portalReq>>
    /\ lastAct' = "saveFire"
    /\ lastArg' = <<>>
    /\ opCount' = opCount
    /\ pushFrom' = <<>>
    /\ mid' = <<[files |-> saveSteps(files, activeFileId, saveTimeout[1])[1],
                 undoStack |-> undoStack, redoStack |-> redoStack]>>
    /\ UNCHANGED callVars

(* ------------------- Toolbar import, node label / colour --------------- *)
DanglingEdge ==
    [id |-> [kind |-> "e", a |-> ROOT_ID, b |-> MaxNodeIds + 1, ah |-> "", bh |-> ""],
     source |-> ROOT_ID, target |-> MaxNodeIds + 1,
     type |-> "smoothstep", sourceHandle |-> "", targetHandle |-> ""]

\* importJSON resolves { nodes: json.nodes ?? [], edges: json.edges ?? [] }
ImportPayloads ==
    { Pair(<<>>, <<>>),
      Pair(<<[RootNode EXCEPT !.isPortal = TRUE]>>, <<>>),
      Pair(<<RootNode>>, <<DanglingEdge>>) }

\* handleImport: store setNodes(nodes); setEdges(edges), without a snapshot
HandleImport(p) ==
    /\ files' = storeSetPair(files, activeFileId, p)
    /\ UNCHANGED <<activeFileId, breadcrumb, undoStack, redoStack, layoutMode, uidVars>>
    /\ Render(files', activeFileId, ActiveFile # <<>>, FALSE, Pair(nodes, edges))
    /\ NoHist("import")

\* The text of an imported file: kind "malformed" is text JSON.parse throws
\* on, "null" the JSON value null, "object" a JSON object whose nodes / edges
\* keys are absent (<<>>) or present (<<array>>).
ImportFiles ==
    {[kind |-> k, nodes |-> <<>>, edges |-> <<>>] : k \in {"malformed", "null"}} \cup
    {[kind |-> k, nodes |-> ns, edges |-> es] :
        k \in {"object"},
        ns \in {<<>>, <<<<[RootNode EXCEPT !.label = "Imported", !.color = "#6366f1",
                                           !.isPortal = TRUE]>>>>},
        es \in {<<>>, <<<<DanglingEdge, [DanglingEdge EXCEPT !.source = DanglingEdge.target,
                                                          !.target = DanglingEdge.source]>>>>}}

\* importJSON that rejects an object without a nodes or an edges key
importJSONStrict(file) ==
    IF file.kind # "object" \/ file.nodes = <<>> \/ file.edges = <<>>
    THEN [ok |-> FALSE, nodes |-> <<>>, edges |-> <<>>]
    ELSE [ok |-> TRUE, nodes |-> file.nodes[1], edges |-> file.edges[1]]

\* importJSON: try { json = JSON.parse(text); resolve({ nodes: json.nodes ?? [],
\* edges: json.edges ?? [] }) } catch { reject }.  JSON.parse throws on
\* malformed text and json.nodes throws on null.
importJSON(file) ==
    IF file.kind \in {"malformed", "null"}
    THEN [ok |-> FALSE, nodes |-> <<>>, edges |-> <<>>]
    ELSE [ok |-> TRUE,
          nodes |-> IF file.nodes = <<>> THEN <<>> ELSE file.nodes[1],
          edges |-> IF file.edges = <<>> THEN <<>> ELSE file.edges[1]]

\* handleImport on a chosen file: await importJSON(file), then the store's
\* setNodes / setEdges; a rejection is caught and alerted
HandleImportFile(file) ==
    LET r == importJSON(file)
    IN  /\ files' = IF r.ok THEN storeSetPair(files, activeFileId, Pair(r.nodes, r.edges)) ELSE files
        /\ UNCHANGED <<activeFileId, breadcrumb, undoStack, redoStack, layoutMode, uidVars>>
        /\ Render(files', activeFileId, r.ok /\ ActiveFile # <<>>, FALSE, Pair(nodes, edges))
        /\ lastAct' = "importFile"
        /\ lastArg' = <<file>>
        /\ chain' = "none" /\ opPre' = <<>> /\ opPost' = <<>> /\ portalReq' = <<>>
        /\ opCount' = opCount
        /\ pushFrom' = <<>>
        /\ mid' = <<>>
        /\ callArgs' = <<file>>
        /\ callResult' = <<[alert |-> IF r.ok THEN "" ELSE "Failed to import: invalid JSON file"]>>

EditLabels == {"Idea"}
EditColors == {"#6366f1"}

\* EditableNode commitLabel: updateNodes on the store's copy, without a snapshot
CommitLabel(id, label) ==
    /\ ActiveFile # <<>>
    /\ files' = storeSetNodes(files, activeFileId, mapLabel(ActiveFile[1].nodes, id, label))
    /\ UNCHANGED <<activeFileId, breadcrumb, undoStack, redoStack, layoutMode, uidVars>>
    /\ Render(files', activeFileId, TRUE, FALSE, Pair(nodes, edges))
    /\ NoHistArg("commitLabel", <<id>>)

SetColor(id, color) ==
    /\ ActiveFile # <<>>
    /\ files' = storeSetNodes(files, activeFileId, mapColor(ActiveFile[1].nodes, id, color))
    /\ UNCHANGED <<activeFileId, breadcrumb, undoStack, redoStack, layoutMode, uidVars>>
    /\ Render(files', activeFileId, TRUE, FALSE, Pair(nodes, edges))
    /\ NoHistArg("setColor", <<id>>)

(* ---------------------------- Canvas actions ---------------------------- *)
\* A canvas handler that snapshots and then sets the local arrays to local2.
\* The handlers are reachable only while ReactFlow is rendered, i.e. while the
\* active document exists.
CanvasOpArg(name, arg, local2) ==
    /\ ActiveFile # <<>>
    /\ undoStack' = pushUndo(undoStack, snapshot(nodes, edges))
    /\ redoStack' = <<>>
    /\ UNCHANGED <<files, activeFileId, breadcrumb, layoutMode, nextFile>>
    /\ Render(files, activeFileId, FALSE, TRUE, local2)
    /\ lastAct' = name
    /\ lastArg' = arg
    /\ chain' = "op"
    /\ opCount' = opCount + 1
    /\ pushFrom' = <<>>
    /\ mid' = <<>>
    /\ UNCHANGED callVars
    /\ opPre' = <<Pair(nodes, edges)>>
    /\ opPost' = <<Pair(nodes', edges')>>
    /\ portalReq' = <<>>

CanvasOp(name, local2) == CanvasOpArg(name, <<>>, local2)

\* handleNodeAction: const node = nodes.find(..); if (!node) return;
NodeActions == {"addChild", "addParent", "addSibling", "duplicate", "delete", "togglePortal"}

HandleNodeActionAbsent(nodeId, action) ==
    /\ FindNode(nodes, nodeId) = <<>>
    /\ UNCHANGED <<storeVars, canvasVars, uidVars>>
    /\ NoHistArg(action, <<nodeId>>)

AddChild(nodeId) ==
    /\ CanvasOpArg("addChild", <<nodeId>>, addChild(nodes, edges, layoutMode, nodeId, nextNode))
    /\ nextNode' = nextNode + 1

AddParent(nodeId) ==
    /\ CanvasOpArg("addParent", <<nodeId>>, addParent(nodes, edges, layoutMode, nodeId, nextNode))
    /\ nextNode' = nextNode + 1

AddSibling(nodeId) ==
    /\ CanvasOpArg("addSibling", <<nodeId>>, addSibling(nodes, edges, layoutMode, nodeId, nextNode))
    /\ nextNode' = nextNode + 1

\* onKeyDown 'Tab' with the node selected: the child is appended without
\* collision resolution and its edge is a plain smoothstep edge
tabChild(ns, es, mode, selectedId, childId) ==
    LET selected == FindNode(ns, selectedId)[1]
        pos == getChildPosition(selected, CountFrom(es, selectedId), mode)
    IN  Pair(Append(ns, NewNode(childId, pos, "Child", "")),
             addEdge([id |-> EdgeId("e", selectedId, "", childId, ""),
                      source |-> selectedId, target |-> childId, type |-> "smoothstep",
                      sourceHandle |-> "", targetHandle |-> ""], es))

KeyTab(selectedId) ==
    /\ CanvasOpArg("keyTab", <<selectedId>>, tabChild(nodes, edges, layoutMode, selectedId, nextNode))
    /\ nextNode' = nextNode + 1

\* onKeyDown 'Enter' with the node selected: the same steps as 'addSibling'
KeyEnter(selectedId) ==
    /\ CanvasOpArg("keyEnter", <<selectedId>>, addSibling(nodes, edges, layoutMode, selectedId, nextNode))
    /\ nextNode' = nextNode + 1

Duplicate(nodeId) ==
    /\ CanvasOpArg("duplicate", <<nodeId>>, duplicate(nodes, edges, nodeId, nextNode))
    /\ nextNode' = nextNode + 1

DeleteNode(nodeId) ==
    /\ CanvasOpArg("delete", <<nodeId>>, deleteNode(nodes, edges, nodeId))
    /\ UNCHANGED nextNode

\* A key press reaches the canvas onKeyDown (when the focus is inside the
\* canvas element) and then, bubbling on, the window keydown listeners; no
\* handler stops the propagation.  With the focus elsewhere on the page only
\* the window listeners run.
KeyFocus == {"canvas", "page"}

\* undo() as a handler calls it: it returns at once on an empty stack or
\* without an active document
undoCall(st) ==
    IF st.undoStack = <<>> \/ ~HasFile(st.files, activeFileId) THEN st
    ELSE undo(st.files, activeFileId, st.undoStack, st.redoStack)

redoCall(st) ==
    IF st.redoStack = <<>> \/ ~HasFile(st.files, activeFileId) THEN st
    ELSE redo(st.files, activeFileId, st.undoStack, st.redoStack)

\* Ctrl/Cmd+Z: onKeyDown calls undo(), the window listener calls undo()
KeyUndo(focus) ==
    LET s0 == [files |-> files, undoStack |-> undoStack, redoStack |-> redoStack]
        s1 == IF focus = "canvas" THEN undoCall(s0) ELSE s0
        s2 == undoCall(s1)
    IN  /\ files' = s2.files
        /\ undoStack' = s2.undoStack
        /\ redoStack' = s2.redoStack
        /\ UNCHANGED <<activeFileId, breadcrumb, layoutMode, uidVars>>
        /\ Render(s2.files, activeFileId, s2 # s0, FALSE, Pair(nodes, edges))
        /\ NoHistArg("keyUndo", <<focus>>)

\* Ctrl/Cmd+Shift+Z or Ctrl/Cmd+Y: onKeyDown calls redo(), the window
\* listener calls redo()
KeyRedo(focus) ==
    LET s0 == [files |-> files, undoStack |-> undoStack, redoStack |-> redoStack]
        s1 == IF focus = "canvas" THEN redoCall(s0) ELSE s0
        s2 == redoCall(s1)
    IN  /\ files' = s2.files
        /\ undoStack' = s2.undoStack
        /\ redoStack' = s2.redoStack
        /\ UNCHANGED <<activeFileId, breadcrumb, layoutMode, uidVars>>
        /\ Render(s2.files, activeFileId, s2 # s0, FALSE, Pair(nodes, edges))
        /\ NoHistArg("keyRedo", <<focus>>)

\* Ctrl/Cmd+X with a node selected: onKeyDown and the window listener each
\* call snapshot() - both with the canvas arrays of the current render - and
\* the two filtering setNodes / setEdges
KeyCut(focus, selectedId) ==
    LET snap == snapshot(nodes, edges)
        u1 == IF focus = "canvas" THEN pushUndo(undoStack, snap) ELSE undoStack
    IN  /\ ActiveFile # <<>>
        /\ undoStack' = pushUndo(u1, snap)
        /\ redoStack' = <<>>
        /\ UNCHANGED <<files, activeFileId, breadcrumb, layoutMode, uidVars>>
        /\ Render(files, activeFileId, FALSE, TRUE, deleteNode(nodes, edges, selectedId))
        /\ lastAct' = "keyCut"
        /\ lastArg' = <<focus, selectedId>>
        /\ chain' = "none" /\ opPre' = <<>> /\ opPost' = <<>> /\ portalReq' = <<>>
        /\ opCount' = opCount + 1
        /\ pushFrom' = <<>>
        /\ mid' = <<>>
        /\ UNCHANGED callVars

\* handleNodeAction 'togglePortal' on a node that is a portal: clears the flag
TogglePortalOff(nodeId) ==
    /\ FindNode(nodes, nodeId)[1].isPortal
    /\ CanvasOpArg("togglePortalOff", <<nodeId>>, Pair(portalOff(nodes, nodeId), edges))
    /\ UNCHANGED nextNode

\* handleNodeAction 'togglePortal' on a node that is not a portal: snapshot(),
\* createFile(name, activeFileId, nodeId) - which makes the new document
\* active - and the local setNodes marking the node.  In the re-render the
\* activeFileId sync effect replaces the local arrays by the new document's.
TogglePortalOn(nodeId) ==
    /\ ActiveFile # <<>>
    /\ ~FindNode(nodes, nodeId)[1].isPortal
    /\ undoStack' = pushUndo(undoStack, snapshot(nodes, edges))
    /\ redoStack' = <<>>
    /\ files' = createFile(files, nextFile, "Sub: " \o FindNode(nodes, nodeId)[1].label, activeFileId, nodeId)
    /\ activeFileId' = nextFile
    /\ nextFile' = nextFile + 1
    /\ UNCHANGED <<breadcrumb, layoutMode, nextNode>>
    /\ Render(files', activeFileId', FALSE, TRUE, Pair(portalOn(nodes, nodeId, nextFile), edges))
    /\ lastAct' = "togglePortal"
    /\ lastArg' = <<nodeId>>
    /\ chain' = "op"
    /\ opCount' = opCount + 1
    /\ pushFrom' = <<>>
    /\ mid' = <<>>
    /\ UNCHANGED callVars
    /\ opPre' = <<Pair(nodes, edges)>>
    /\ opPost' = <<Pair(nodes', edges')>>
    /\ portalReq' = <<[file |-> activeFileId, node |-> nodeId, sub |-> nextFile]>>

OnConnect(conn) ==
    /\ CanvasOpArg("connect", <<conn.source, conn.target>>, Pair(nodes, addEdge(connectEdge(conn, layoutMode), edges)))
    /\ UNCHANGED nextNode

\* onConnectEnd on the pane -> addChildNodeAt(start.nodeId, pos)
AddChildNodeAt(sourceId, position) ==
    /\ LET sourceNode == FindNode(nodes, sourceId)
           newNode == NewNode(nextNode, position, "Child",
                              IF sourceNode # <<>> THEN sourceNode[1].color ELSE "")
       IN  CanvasOpArg("addChildNodeAt", <<sourceId>>,
                    Pair(resolveCollisions(Append(nodes, newNode), layoutMode, nextNode),
                         addEdge(templEdge(sourceId, nextNode, layoutMode), edges)))
    /\ nextNode' = nextNode + 1

\* onPaneDoubleClick / addNodeAtPosition
AddNodeAtPosition(position) ==
    /\ CanvasOp("addRootNode", Pair(Append(nodes, NewNode(nextNode, position, "New Node", "")), edges))
    /\ nextNode' = nextNode + 1

ApplyAutoLayout ==
    /\ CanvasOp("autoLayout", applyLayout(nodes, edges, layoutMode))
    /\ UNCHANGED nextNode

\* onNodeDragStart={() => snapshot()}: the snapshot alone
NodeDragStart ==
    /\ ActiveFile # <<>>
    /\ undoStack' = pushUndo(undoStack, snapshot(nodes, edges))
    /\ redoStack' = <<>>
    /\ UNCHANGED <<files, activeFileId, breadcrumb, layoutMode, uidVars, canvasVars>>
    /\ NoHist("dragStart")

\* onNodeDragStart (snapshot) followed by the drag's position changes
NodeDrag(nodeId, position) ==
    /\ CanvasOpArg("drag", <<nodeId>>,
                Pair([i \in 1..Len(nodes) |->
                        IF nodes[i].id = nodeId
                        THEN [nodes[i] EXCEPT !.x = position.x, !.y = position.y]
                        ELSE nodes[i]],
                     edges))
    /\ UNCHANGED nextNode

PanePositions == {[x |-> 0, y |-> 200]}
DragPositions == {[x |-> 300, y |-> 0]}
SourceHandles == {"", "bottom"}
TargetHandles == {""}
Connections(ids) ==
    {[source |-> s, target |-> t, sourceHandle |-> sh, targetHandle |-> th] :
        s \in ids, t \in ids, sh \in SourceHandles, th \in TargetHandles}

\* resolveCollisions called on its own: node lists of up to MaxRcNodes nodes
\* at positions that coincide, overlap in part or lie apart, any mode, no
\* locked id or one of the ids
RcPoints ==
    {[x |-> 0, y |-> 0], [x |-> 100, y |-> 0], [x |-> 0, y |-> 50], [x |-> 300, y |-> 200]}
RcNodeLists ==
    UNION {{[i \in 1..n |-> NewNode(i, ps[i], "n", "")] : ps \in [1..n -> RcPoints]} : n \in 1..MaxRcNodes}
RcArgs ==
    {[ns |-> ns, mode |-> m, lockedId |-> l] :
        ns \in RcNodeLists, m \in LayoutModes, l \in {NULL} \cup (1..MaxRcNodes)}

InitCollide ==
    /\ files = <<>> /\ activeFileId = NULL /\ breadcrumb = <<>>
    /\ undoStack = <<>> /\ redoStack = <<>> /\ layoutMode = "mindmap"
    /\ nodes = <<>> /\ edges = <<>> /\ saveTimeout = <<>>
    /\ nextFile = 1 /\ nextNode = 1
    /\ lastAct = "init" /\ lastArg = <<>> /\ chain = "none"
    /\ opPre = <<>> /\ opPost = <<>> /\ portalReq = <<>> /\ opCount = 0
    /\ pushFrom = <<>> /\ mid = <<>>
    /\ callArgs \in {<<a>> : a \in RcArgs}
    /\ callResult = <<>>

CallResolveCollisions ==
    /\ callArgs # <<>> /\ callResult = <<>> /\ mid = <<>>
    /\ callResult' = <<passes(callArgs[1].ns, callArgs[1].mode, callArgs[1].lockedId, 0)>>
    /\ lastAct' = "resolveCollisions"
    /\ UNCHANGED <<storeVars, canvasVars, uidVars, callArgs,
                   lastArg, chain, opPre, opPost, portalReq, opCount, pushFrom, mid>>

\* the body of the double loop run once, for nodes[i] and nodes[j]
CallPushStep(i, j) ==
    /\ callArgs # <<>> /\ callResult = <<>> /\ mid = <<>>
    /\ mid' = <<pushStep(callArgs[1].ns, callArgs[1].mode, callArgs[1].lockedId, i, j)>>
    /\ lastAct' = "pushStep"
    /\ lastArg' = <<i, j>>
    /\ UNCHANGED <<storeVars, canvasVars, uidVars, callVars,
                   chain, opPre, opPost, portalReq, opCount, pushFrom>>

NextCollide ==
    \/ CallResolveCollisions
    \/ \E i, j \in 1..MaxRcNodes :
            /\ i <= Len(callArgs[1].ns) /\ j <= Len(callArgs[1].ns)
            /\ CallPushStep(i, j)

SpecCollide == InitCollide /\ [][NextCollide]_vars

\* getChildPosition called on its own, twice: for a parent and for another
\* node, which may or may not sit where the parent sits
PosArgs ==
    LET ps == {NewNode(i, [x |-> x, y |-> y], l, "") :
                 i \in {ROOT_ID}, x \in {0, 100}, y \in {0, 50}, l \in {"Central Idea", "Child"}}
    IN  {[parent |-> p, other |-> o, n |-> n, mode |-> m] :
            p \in ps, o \in ps, n \in 0..PosMaxCount, m \in LayoutModes}

InitPosition ==
    /\ files = <<>> /\ activeFileId = NULL /\ breadcrumb = <<>>
    /\ undoStack = <<>> /\ redoStack = <<>> /\ layoutMode = "mindmap"
    /\ nodes = <<>> /\ edges = <<>> /\ saveTimeout = <<>>
    /\ nextFile = 1 /\ nextNode = 1
    /\ lastAct = "init" /\ lastArg = <<>> /\ chain = "none"
    /\ opPre = <<>> /\ opPost = <<>> /\ portalReq = <<>> /\ opCount = 0
    /\ pushFrom = <<>> /\ mid = <<>>
    /\ callArgs \in {<<a>> : a \in PosArgs}
    /\ callResult = <<>>

CallGetChildPosition ==
    /\ callArgs # <<>> /\ callResult = <<>>
    /\ callResult' = <<getChildPosition(callArgs[1].parent, callArgs[1].n, callArgs[1].mode),
                       getChildPosition(callArgs[1].other, callArgs[1].n, callArgs[1].mode)>>
    /\ lastAct' = "getChildPosition"
    /\ UNCHANGED <<storeVars, canvasVars, uidVars, callArgs,
                   lastArg, chain, opPre, opPost, portalReq, opCount, pushFrom, mid>>

SpecPosition == InitPosition /\ [][CallGetChildPosition]_vars

\* a node id and a document id that no document holds
AbsentNode == MaxNodeIds + 1
AbsentFile == MaxFiles + 1

(* ------------------------------ specifications ------------------------- *)
CanSnap == opCount < MaxOps
CanAdd == nextNode <= MaxNodeIds /\ CanSnap

\* Structural editing of a document: every canvas operation that snapshots,
\* undo/redo and the save timer.
NextEdit ==
    \/ files = <<>> /\ HandleNew
    \/ CanAdd /\ \E id \in NodeIds(nodes) : AddChild(id)
    \/ CanAdd /\ \E id \in NodeIds(nodes) : AddParent(id)
    \/ CanAdd /\ \E id \in NodeIds(nodes) : AddSibling(id)
    \/ CanAdd /\ \E id \in NodeIds(nodes) : Duplicate(id)
    \/ CanSnap /\ \E id \in NodeIds(nodes) : DeleteNode(id)
    \/ CanSnap /\ nextFile <= EditMaxFiles /\ \E id \in NodeIds(nodes) : TogglePortalOn(id)
    \/ CanSnap /\ \E c \in Connections(NodeIds(nodes)) : OnConnect(c)
    \/ CanAdd /\ \E id \in NodeIds(nodes), pos \in PanePositions : AddChildNodeAt(id, pos)
    \/ CanAdd /\ \E pos \in PanePositions : AddNodeAtPosition(pos)
    \/ CanSnap /\ ApplyAutoLayout
    \/ CanSnap /\ \E id \in NodeIds(nodes), pos \in DragPositions : NodeDrag(id, pos)
    \/ Undo
    \/ Redo
    \/ SaveFire

SpecEdit == Init /\ [][NextEdit]_vars

\* Edits that go through the store (import, label, colour) next to canvas
\* edits, undo/redo and the save timer.
NextStore ==
    \/ files = <<>> /\ HandleNew
    \/ nextNode <= StoreMaxNodes /\ CanSnap /\ \E id \in NodeIds(nodes) : AddChild(id)
    \/ CanSnap /\ \E id \in NodeIds(nodes) : TogglePortalOff(id)
    \/ \E p \in ImportPayloads : HandleImport(p)
    \/ \E id \in NodeIds(nodes), l \in EditLabels : CommitLabel(id, l)
    \/ \E id \in NodeIds(nodes), c \in EditColors : SetColor(id, c)
    \/ Undo
    \/ Redo
    \/ SaveFire

SpecStore == Init /\ [][NextStore]_vars

\* Keyboard shortcuts on a document that is being edited.
NextKeys ==
    \/ files = <<>> /\ HandleNew
    \/ CanAdd /\ \E id \in NodeIds(nodes) : AddChild(id)
    \/ \E f \in KeyFocus : KeyUndo(f)
    \/ \E f \in KeyFocus : KeyRedo(f)
    \/ CanSnap /\ \E f \in KeyFocus, id \in NodeIds(nodes) : KeyCut(f, id)
    \/ SaveFire

SpecKeys == Init /\ [][NextKeys]_vars

\* Navigation between documents: portals are made, imported and opened, and
\* breadcrumb buttons are clicked.  While a click handler runs nothing else does.
NextCrumb ==
    \/ callArgs = <<>> /\ nextFile <= MaxFiles /\ HandleNew
    \/ callArgs = <<>> /\ \E id \in FileIds(files) : SetActiveFile(id)
    \/ callArgs = <<>> /\ CanSnap /\ nextFile <= MaxFiles /\ \E id \in NodeIds(nodes) : TogglePortalOn(id)
    \/ callArgs = <<>> /\ ActiveFile # <<>> /\ \E p \in ImportPayloads : HandleImport(p)
    \/ callArgs = <<>> /\ Len(breadcrumb) <= MaxCrumb /\ \E id \in NodeIds(nodes) : HandleDoubleClick(id)
    \/ \E i \in 0..MaxCrumb : ClickBreadcrumb(i)
    \/ ClickLoop
    \/ callArgs = <<>> /\ SaveFire

SpecCrumb == Init /\ [][NextCrumb]_vars

\* The history stacks at their cap: snapshots taken by drag starts.
\* Handlers called with ids that may name nothing.
NextRef ==
    \/ files = <<>> /\ HandleNew
    \/ CanAdd /\ \E id \in NodeIds(nodes) : AddChild(id)
    \/ \E a \in NodeActions : HandleNodeActionAbsent(AbsentNode, a)
    \/ CanSnap /\ \E c \in Connections(NodeIds(nodes) \cup {AbsentNode}) : OnConnect(c)
    \/ SetActiveFile(AbsentFile)
    \/ Len(breadcrumb) < MaxCrumb /\ PushBreadcrumb(AbsentFile)
    \/ \E name \in FileNames : RenameFile(AbsentFile, name)
    \/ TogglePin(AbsentFile)
    \/ DeleteFile(AbsentFile)
    \/ Undo
    \/ Redo
    \/ SaveFire

SpecRef == Init /\ [][NextRef]_vars

\* Growing a document and deleting nodes from it, with a sub-document around.
NextDelete ==
    \/ files = <<>> /\ HandleNew
    \/ opCount < DelMaxOps /\ nextNode <= DelMaxNodes /\ \E id \in NodeIds(nodes) : AddChild(id)
    \/ opCount < DelMaxOps /\ \E id \in NodeIds(nodes) : DeleteNode(id)
    \/ opCount < DelMaxOps /\ nextFile <= EditMaxFiles /\ \E id \in NodeIds(nodes) : TogglePortalOn(id)
    \/ \E id \in FileIds(files) : SetActiveFile(id)
    \/ SaveFire

SpecDelete == Init /\ [][NextDelete]_vars

\* The sidebar's list of documents: creating, deleting, pinning, reordering.
NextFiles ==
    \/ nextFile <= PinMaxFiles /\ CreateFile
    \/ nextFile <= PinMaxFiles /\ \E id \in NodeIds(nodes) : TogglePortalOn(id)
    \/ \E id \in FileIds(files) : DeleteFile(id)
    \/ \E id \in FileIds(files) : TogglePin(id)
    \/ \E a, b \in FileIds(files) : ReorderFiles(a, b)

SpecFiles == Init /\ [][NextFiles]_vars

\* Editing with the save timer: the timer callback runs 300 ms after the last
\* change of the canvas arrays, so a pending timer does fire.
NextSave ==
    \/ nextFile <= EditMaxFiles /\ HandleNew
    \/ \E id \in FileIds(files) : SetActiveFile(id)
    \/ CanAdd /\ \E id \in NodeIds(nodes) : AddChild(id)
    \/ CanSnap /\ \E id \in NodeIds(nodes) : DeleteNode(id)
    \/ CanSnap /\ \E id \in NodeIds(nodes), pos \in DragPositions : NodeDrag(id, pos)
    \/ Undo
    \/ Redo
    \/ SaveFire

SpecSave == Init /\ [][NextSave]_vars /\ WF_vars(SaveFire)

\* Importing files into a document that is being edited.
NextImport ==
    \/ files = <<>> /\ HandleNew
    \/ nextNode <= StoreMaxNodes /\ CanSnap /\ \E id \in NodeIds(nodes) : AddChild(id)
    \/ nextNode <= StoreMaxNodes /\ CanSnap /\ \E id \in NodeIds(nodes) : AddSibling(id)
    \/ nextNode <= StoreMaxNodes /\ CanSnap /\ \E id \in NodeIds(nodes) : KeyEnter(id)
    \/ nextNode <= StoreMaxNodes /\ CanSnap /\ \E id \in NodeIds(nodes) : Duplicate(id)
    \/ \E file \in ImportFiles : HandleImportFile(file)
    \/ SaveFire

SpecImport == Init /\ [][NextImport]_vars

\* Growing a graph in a layout mode chosen before the first edit: the node
\* actions that add a node, and connecting by the default handles.
NextGrow ==
    \/ files = <<>> /\ HandleNew
    \/ opCount = 0 /\ \E m \in LayoutModes : SetLayoutMode(m)
    \/ opCount < GrowMaxOps /\ \E id \in NodeIds(nodes) : AddChild(id)
    \/ opCount < GrowMaxOps /\ \E id \in NodeIds(nodes) : AddParent(id)
    \/ opCount < GrowMaxOps /\ \E id \in NodeIds(nodes) : AddSibling(id)
    \/ opCount < GrowMaxOps /\ \E id \in NodeIds(nodes) : Duplicate(id)
    \/ opCount < GrowMaxOps /\ \E id \in NodeIds(nodes) : KeyEnter(id)
    \/ opCount < GrowMaxOps /\ \E id \in NodeIds(nodes) : KeyTab(id)
    \/ opCount < GrowMaxOps /\ \E c \in Connections(NodeIds(nodes)) :
            c.sourceHandle = "" /\ OnConnect(c)

SpecGrow == Init /\ [][NextGrow]_vars

NextHistory ==
    \/ files = <<>> /\ HandleNew
    \/ NodeDragStart
    \/ Undo
    \/ Redo
    \/ SaveFire

SpecHistory == Init /\ [][NextHistory]_vars

Next ==
    \/ nextFile <= MaxFiles /\ CreateFile
    \/ nextFile <= MaxFiles /\ HandleNew
    \/ \E id \in FileIds(files) : DeleteFile(id)
    \/ \E id \in FileIds(files) : SetActiveFile(id)
    \/ Len(breadcrumb) < MaxCrumb /\ \E id \in FileIds(files) : PushBreadcrumb(id)
    \/ PopBreadcrumb
    \/ Undo
    \/ Redo
    \/ SaveFire
    \/ CanSnap /\ nextFile <= MaxFiles /\ \E id \in NodeIds(nodes) : TogglePortalOn(id)
    \/ CanAdd /\ \E pos \in PanePositions : AddNodeAtPosition(pos)

Spec == Init /\ [][Next]_vars

(* ================================ claims =============================== *)
CanvasPair == Pair(nodes, edges)
StoredPair == IF ActiveFile = <<>> THEN <<>> ELSE <<Pair(ActiveFile[1].nodes, ActiveFile[1].edges)>>

\* C1: undo() directly after a mutating graph operation (the save timer may
\* or may not have expired in between) leaves the canvas and the stored active
\* document holding exactly the (nodes, edges) pair seen before the operation.
C1_UndoRestoresPre ==
    (lastAct = "undo" /\ chain = "undo") =>
        (CanvasPair = opPre[1] /\ StoredPair = opPre)

\* an operation that changed the graph has just been undone
C1_Witness ==
    /\ lastAct = "undo" /\ chain = "undo"
    /\ opPost # opPre
    /\ Len(opPre[1].nodes) >= 2
    /\ undoStack # <<>>

\* C2: undo() followed by redo() leaves the canvas holding the pair that held
\* right after the operation, whether or not the debounced save expired
\* before the undo.
C2_RedoRestoresPost ==
    (lastAct = "redo" /\ chain = "redo") => CanvasPair = opPost[1]

\* C3: neither history stack ever holds more than MAX_UNDO snapshots.
C3_StacksCapped ==
    Len(undoStack) <= MAX_UNDO /\ Len(redoStack) <= MAX_UNDO

\* C4: every step that changes the active document id leaves both history
\* stacks empty.
C4_SwitchClearsHistory ==
    [][activeFileId' # activeFileId => (undoStack' = <<>> /\ redoStack' = <<>>)]_vars

\* C5: every edge of every stored document has its source and its target
\* among the nodes of that document.
C5_EdgeEndpoints ==
    \A i \in 1..Len(files) : \A k \in 1..Len(files[i].edges) :
        /\ files[i].edges[k].source \in NodeIds(files[i].nodes)
        /\ files[i].edges[k].target \in NodeIds(files[i].nodes)

\* C6: no two documents have the same non-null parentNodeId.
C6_PortalUnique ==
    \A i, j \in 1..Len(files) :
        (files[i].parentNodeId # NULL /\ files[i].parentNodeId = files[j].parentNodeId) => i = j

\* C7: a step that changes the active document while a save of the previous
\* document is pending does not drop that save: afterwards the previous
\* document holds the pending pair, or the save is still pending.
C7_PendingSaveSurvivesSwitch ==
    [][(/\ saveTimeout # <<>>
        /\ activeFileId' # activeFileId
        /\ HasFile(files, activeFileId)
        /\ HasFile(files', activeFileId))
       => \/ saveTimeout[1] \in Range(saveTimeout')
          \/ LET d == FindFile(files', activeFileId)[1]
             IN  Pair(d.nodes, d.edges) = saveTimeout[1]]_vars

\* C8: after togglePortal on a non-portal node of document D, the new
\* document has parentFileId = D and parentNodeId = the node, and once no save
\* is pending the node stored in D is a portal referring to the new document.
C8_PortalFlagStored ==
    (portalReq # <<>> /\ saveTimeout = <<>>) =>
        LET r == portalReq[1]
            d == FindFile(files, r.file)
            sub == FindFile(files, r.sub)
        IN  /\ sub # <<>> /\ sub[1].parentFileId = r.file /\ sub[1].parentNodeId = r.node
            /\ d # <<>>
            /\ \E n \in Range(d[1].nodes) : n.id = r.node /\ n.isPortal /\ n.subFileId = r.sub

MutatingActs ==
    {"addChild", "addParent", "addSibling", "duplicate", "delete", "togglePortalOff",
     "connect", "addChildNodeAt", "addRootNode", "autoLayout", "drag",
     "import", "commitLabel", "setColor"}

\* C9: every operation that changes the active document's nodes or edges
\* leaves the pre-change pair on top of the undo stack.
C9_SnapshotBeforeMutate ==
    [][(lastAct' \in MutatingActs /\ CanvasPair' # CanvasPair)
       => (undoStack' # <<>> /\ undoStack'[Len(undoStack')] = CanvasPair)]_vars

\* C10: while a document is active the breadcrumb is not empty.
C10_BreadcrumbNonEmpty ==
    activeFileId # NULL => breadcrumb # <<>>

\* C11: from a state with an active document, pushBreadcrumb(id) directly
\* followed by popBreadcrumb() makes the document that was active before the
\* push active again, and both history stacks are empty after each step.
C11_PushPopReturns ==
    [][(/\ lastAct = "pushBreadcrumb" /\ lastAct' = "popBreadcrumb"
        /\ pushFrom # <<>> /\ HasFile(files, pushFrom[1]))
       => /\ activeFileId' = pushFrom[1]
          /\ undoStack = <<>> /\ redoStack = <<>>
          /\ undoStack' = <<>> /\ redoStack' = <<>>]_vars

\* C12: when deleteFile removes the document that was active (the deleted
\* document itself or one of its direct children), the active id afterwards is
\* the first remaining document, or null when none remains.
C12_DeleteReactivates ==
    [][(/\ lastAct' = "deleteFile"
        /\ HasFile(files, activeFileId)
        /\ ~HasFile(files', activeFileId))
       => activeFileId' = (IF files' # <<>> THEN files'[1].id ELSE NULL)]_vars

\* C13: every document's parentFileId is null or the id of a document that
\* exists.
C13_ParentExists ==
    \A i \in 1..Len(files) :
        files[i].parentFileId = NULL \/ HasFile(files, files[i].parentFileId)

GraphEdits == NodeActions \cup {"connect"}

\* C14: a graph edit called with a node id that is not among the nodes
\* changes neither the nodes, the edges, the documents nor the history stacks.
C14_AbsentNodeNoChange ==
    [][(/\ lastAct' \in GraphEdits
        /\ \E k \in 1..Len(lastArg') : lastArg'[k] \notin NodeIds(nodes))
       => UNCHANGED <<nodes, edges, files, undoStack, redoStack>>]_vars

DocumentActs == {"setActiveFile", "pushBreadcrumb", "renameFile", "togglePin", "deleteFile"}

\* C15: a document operation called with an id that names no document changes
\* neither the documents, the active id, the breadcrumb nor the history stacks.
C15_AbsentFileNoChange ==
    [][(/\ lastAct' \in DocumentActs
        /\ lastArg' # <<>>
        /\ ~HasFile(files, lastArg'[1]))
       => UNCHANGED <<files, activeFileId, breadcrumb, undoStack, redoStack>>]_vars

\* C16: no stored document holds an edge whose source is its target.
C16_NoSelfLoop ==
    \A i \in 1..Len(files) : \A k \in 1..Len(files[i].edges) :
        files[i].edges[k].source # files[i].edges[k].target

\* the (nodes, edges) pair a store state holds for the document `active`
PairIn(fs, active) ==
    LET f == FindFile(fs, active)
    IN  IF f = <<>> THEN <<>> ELSE <<Pair(f[1].nodes, f[1].edges)>>

\* C17: every store state that undo or redo publishes on the way is, in its
\* stacks and in the active document's (nodes, edges) pair, either the state
\* before the call or the state after it.
C17_UndoRedoAtomic ==
    [][lastAct' \in {"undo", "redo"} =>
        \A k \in 1..Len(mid') :
            \/ /\ mid'[k].undoStack = undoStack /\ mid'[k].redoStack = redoStack
               /\ PairIn(mid'[k].files, activeFileId) = PairIn(files, activeFileId)
            \/ /\ mid'[k].undoStack = undoStack' /\ mid'[k].redoStack = redoStack'
               /\ PairIn(mid'[k].files, activeFileId) = PairIn(files', activeFileId)]_vars

\* C18: resolveCollisions ends after at most 20 passes over the ordered node
\* pairs, whatever the nodes, the mode and the locked id.
C18_AtMostTwentyPasses ==
    callResult # <<>> => callResult[1].iters <= MAX_PASSES

\* a call that never settles: it stops because the 20 passes are used up
C18_Witness ==
    /\ callResult # <<>>
    /\ callResult[1].iters = MAX_PASSES
    /\ onePass(callResult[1].ns, callArgs[1].mode, callArgs[1].lockedId, 0, FALSE).moved

\* C19: deleteNode(nodeId) takes away that node and the edges that start or
\* end at it, keeps every other node and edge as it was, and changes no
\* stored document.
C19_DeleteExact ==
    [][lastAct' = "delete" =>
        LET id == lastArg'[1]
        IN  /\ Range(nodes') = {n \in Range(nodes) : n.id # id}
            /\ Len(nodes') = Cardinality({i \in 1..Len(nodes) : nodes[i].id # id})
            /\ Range(edges') = {e \in Range(edges) : e.source # id /\ e.target # id}
            /\ Len(edges') = Cardinality({k \in 1..Len(edges) : edges[k].source # id /\ edges[k].target # id})
            /\ files' = files]_vars

\* three children added to root, the second one deleted: the edges to the
\* first and the third child and exactly two children remain
C19_Witness ==
    /\ lastAct = "delete" /\ lastArg = <<2>>
    /\ Len(opPre[1].nodes) = 4
    /\ {<<e.source, e.target>> : e \in Range(opPre[1].edges)} = {<<ROOT_ID, 1>>, <<ROOT_ID, 2>>, <<ROOT_ID, 3>>}
    /\ NodeIds(nodes) = {ROOT_ID, 1, 3} /\ Len(nodes) = 3
    /\ {<<e.source, e.target>> : e \in Range(edges)} = {<<ROOT_ID, 1>>, <<ROOT_ID, 3>>} /\ Len(edges) = 2

\* within each parentFileId group every pinned document comes before every
\* unpinned one
PinOrdered(fs) ==
    \A i, j \in 1..Len(fs) :
        (fs[i].parentFileId = fs[j].parentFileId /\ fs[i].pinned /\ ~fs[j].pinned) => i < j

\* C20: after createFile, deleteFile, togglePin and reorderFiles the files
\* list is pin-ordered within each parent group, and togglePin keeps the
\* order of all the other documents.
C20_PinOrdering ==
    [][/\ PinOrdered(files')
       /\ lastAct' = "togglePin" =>
            SelectSeq(files', LAMBDA f : f.id # lastArg'[1])
                = SelectSeq(files, LAMBDA f : f.id # lastArg'[1])]_vars

\* a document pinned after an older unpinned one of its group has moved in
\* front of it
C20_Witness ==
    /\ lastAct = "togglePin"
    /\ Len(files) >= 3
    /\ \E i, j \in 1..Len(files) :
        /\ i < j /\ files[i].id > files[j].id
        /\ files[i].parentFileId = files[j].parentFileId
        /\ files[i].pinned /\ ~files[j].pinned

\* the number of store updates of the last handler that changed the active
\* document's (nodes, edges) pair
DocWrites ==
    LET st == <<files>> \o [k \in 1..Len(mid') |-> mid'[k].files] \o <<files'>>
    IN  Cardinality({k \in 2..Len(st) :
            PairIn(st[k], activeFileId) # PairIn(st[k - 1], activeFileId)})

\* C21: at most one save timer is pending; a pending timer carries the
\* latest canvas arrays and every canvas mutation leaves such a timer; the
\* expiry after a burst of mutations writes the document once, with the
\* latest canvas, and leaves no timer pending; and the active document
\* eventually equals the canvas for good.
C21_DebouncedSave ==
    /\ [](/\ Len(saveTimeout) <= 1
          /\ ActiveFile # <<>> =>
                IF saveTimeout # <<>> THEN saveTimeout[1] = CanvasPair
                ELSE StoredPair = <<CanvasPair>>)
    /\ [][/\ lastAct' \in MutatingActs => saveTimeout' = <<CanvasPair'>>
          /\ lastAct' = "saveFire" =>
                /\ saveTimeout' = <<>>
                /\ ActiveFile # <<>> => StoredPair' = <<CanvasPair>>
                /\ (ActiveFile # <<>> /\ StoredPair # <<CanvasPair>>) => DocWrites = 1]_vars
    /\ <>[](ActiveFile # <<>> => StoredPair = <<CanvasPair>>)

\* C22: importing a JSON object stores its nodes and edges, an absent key
\* counting as the empty list, and reports nothing; importing text that is
\* not JSON is reported and leaves the documents, the active id and both
\* stacks as they were.
C22_ImportDefaults ==
    [][lastAct' = "importFile" =>
        LET file == lastArg'[1]
        IN  /\ file.kind = "object" =>
                /\ callResult'[1].alert = ""
                /\ PairIn(files', activeFileId) =
                     IF ActiveFile = <<>> THEN <<>>
                     ELSE <<Pair(IF file.nodes = <<>> THEN <<>> ELSE file.nodes[1],
                                 IF file.edges = <<>> THEN <<>> ELSE file.edges[1])>>
            /\ file.kind = "malformed" =>
                /\ callResult'[1].alert # ""
                /\ UNCHANGED <<files, activeFileId, undoStack, redoStack>>]_vars

\* an object with edges and no nodes key, imported into a document that had
\* a child: the document holds no nodes and the file's edges
C22_Witness ==
    /\ lastAct = "importFile"
    /\ lastArg[1].kind = "object" /\ lastArg[1].nodes = <<>> /\ lastArg[1].edges # <<>>
    /\ undoStack # <<>>
    /\ callResult[1].alert = ""
    /\ StoredPair = <<Pair(<<>>, lastArg[1].edges[1])>>

\* C23: addParent(nodeId) appends one node P with a fresh id; afterwards the
\* one edge into nodeId is P -> nodeId, every source of a former edge into
\* nodeId has an edge into P, and the edges that did not target nodeId are
\* the same, in the same order.
C23_AddParentRewires ==
    [][lastAct' = "addParent" =>
        LET id == lastArg'[1]
            P == nodes'[Len(nodes')].id
        IN  /\ Len(nodes') = Len(nodes) + 1
            /\ SubSeq(nodes', 1, Len(nodes)) = nodes
            /\ P \notin NodeIds(nodes)
            /\ Cardinality({k \in 1..Len(edges') : edges'[k].target = id}) = 1
            /\ \E k \in 1..Len(edges') : edges'[k].target = id /\ edges'[k].source = P
            /\ \A k \in 1..Len(edges) : edges[k].target = id =>
                    \E j \in 1..Len(edges') :
                        edges'[j].source = edges[k].source /\ edges'[j].target = P
            /\ SelectSeq(edges', LAMBDA e : e.target \notin {id, P})
                    = SelectSeq(edges, LAMBDA e : e.target # id)
            /\ Len(edges') = Len(edges) + 1]_vars

\* addParent on a node with edges from two different sources: both sources
\* now point at the new parent
C23_Witness ==
    /\ lastAct = "addParent"
    /\ LET P == nodes[Len(nodes)].id
       IN  /\ Cardinality({edges[k].source : k \in {k \in 1..Len(edges) : edges[k].target = P}}) >= 2
           /\ Cardinality({k \in 1..Len(edges) : edges[k].source = P}) = 1

\* C24: addSibling(selectedId), from the menu or by Enter, adds one node; if
\* an edge targets selectedId it appends one edge, from the source of such an
\* edge to the new node, and the new node sits where getChildPosition puts a
\* further child of that source; otherwise the edges are unchanged and the
\* new node sits at getSiblingPosition of the selected node.
C24_AddSibling ==
    [][lastAct' \in {"addSibling", "keyEnter"} =>
        LET id == lastArg'[1]
            new == CHOOSE n \in Range(nodes') : n.id \notin NodeIds(nodes)
            last == edges'[Len(edges')]
        IN  /\ Len(nodes') = Len(nodes) + 1
            /\ NodeIds(nodes) \subseteq NodeIds(nodes')
            /\ Cardinality(NodeIds(nodes') \ NodeIds(nodes)) = 1
            /\ IF \E k \in 1..Len(edges) : edges[k].target = id
               THEN /\ Len(edges') = Len(edges) + 1
                    /\ SubSeq(edges', 1, Len(edges)) = edges
                    /\ last.target = new.id
                    /\ \E k \in 1..Len(edges) : edges[k].target = id /\ edges[k].source = last.source
                    /\ \E p \in Range(nodes) :
                        /\ p.id = last.source
                        /\ [x |-> new.x, y |-> new.y]
                             = getChildPosition(p, CountFrom(edges, p.id), layoutMode)
               ELSE /\ edges' = edges
                    /\ [x |-> new.x, y |-> new.y]
                         = getSiblingPosition(FindNode(nodes, id)[1], layoutMode)]_vars

\* C25: addChild(sourceId), from the menu or by Tab, adds one node and the
\* one edge sourceId -> newId with the handles of the layout mode's edge
\* template, and the nodes are those of collision resolution with the new
\* node locked, the new node at getChildPosition(source, edges leaving
\* source, mode).
C25_AddChild ==
    [][lastAct' \in {"addChild", "keyTab"} =>
        LET id == lastArg'[1]
            source == FindNode(nodes, id)[1]
            new == nodes'[Len(nodes')]
            last == edges'[Len(edges')]
            pos == getChildPosition(source, CountFrom(edges, id), layoutMode)
        IN  /\ Len(nodes') = Len(nodes) + 1
            /\ new.id \notin NodeIds(nodes)
            /\ Len(edges') = Len(edges) + 1
            /\ SubSeq(edges', 1, Len(edges)) = edges
            /\ last.source = id /\ last.target = new.id
            /\ last.sourceHandle = edgeTemplate(layoutMode).sourceHandle
            /\ last.targetHandle = edgeTemplate(layoutMode).targetHandle
            /\ nodes' = resolveCollisions(Append(nodes, [new EXCEPT !.x = pos.x, !.y = pos.y]),
                                          layoutMode, new.id)
            /\ new.x = pos.x /\ new.y = pos.y]_vars

\* C26: two calls of getChildPosition with the same count and mode for nodes
\* at the same position give the same position; in orgchart mode it is
\* (parent.x + n * 280 / 2, parent.y + 170), the last of n + 1 slots 280
\* apart centred on parent.x, and in logic mode (parent.x + 300,
\* parent.y + n * 120 / 2), the last of n + 1 slots 120 apart centred on
\* parent.y.
C26_ChildPosition ==
    (lastAct = "getChildPosition") =>
        LET a == callArgs[1]
            r == callResult[1]
            slotsX == {r.x - k * 280 : k \in 0..a.n}
            slotsY == {r.y - k * 120 : k \in 0..a.n}
        IN  /\ (a.parent.x = a.other.x /\ a.parent.y = a.other.y) => callResult[2] = r
            /\ a.mode = "orgchart" =>
                /\ 2 * r.x = 2 * a.parent.x + a.n * 280
                /\ r.y = a.parent.y + 170
                /\ Min(slotsX) + Max(slotsX) = 2 * a.parent.x
            /\ a.mode = "logic" =>
                /\ r.x = a.parent.x + 300
                /\ 2 * r.y = 2 * a.parent.y + a.n * 120
                /\ Min(slotsY) + Max(slotsY) = 2 * a.parent.y

\* the third child in orgchart mode, computed for two nodes that differ only
\* in their label
C26_Witness ==
    /\ lastAct = "getChildPosition"
    /\ callArgs[1].mode = "orgchart" /\ callArgs[1].n = 2
    /\ callArgs[1].parent # callArgs[1].other
    /\ callArgs[1].parent.x = callArgs[1].other.x /\ callArgs[1].parent.y = callArgs[1].other.y
    /\ callResult[1] = [x |-> callArgs[1].parent.x + 280, y |-> callArgs[1].parent.y + 170]
    /\ callResult[2] = callResult[1]

\* C27: no two nodes of the canvas share an id and no two edges share an id.
C27_UniqueIds ==
    /\ \A i, j \in 1..Len(nodes) : nodes[i].id = nodes[j].id => i = j
    /\ \A i, j \in 1..Len(edges) : edges[i].id = edges[j].id => i = j

\* C28: undo() with an empty undo stack and redo() with an empty redo stack
\* change neither the documents, nor the active id, nor the breadcrumb, nor
\* either stack.
C28_EmptyStackNoOp ==
    [][(\/ lastAct' = "undo" /\ undoStack = <<>>
        \/ lastAct' = "redo" /\ redoStack = <<>>)
       => UNCHANGED <<files, activeFileId, breadcrumb, undoStack, redoStack>>]_vars

\* undo called once more after the last snapshot was undone
C28_Witness ==
    /\ lastAct = "undo"
    /\ mid = <<>>
    /\ undoStack = <<>>
    /\ redoStack # <<>>
    /\ ActiveFile # <<>>

\* C29: duplicate(nodeId) appends one node with the label, colour and portal
\* flag of nodeId, 40 right of and 40 below it, and leaves the edges and the
\* documents as they were.
C29_Duplicate ==
    [][lastAct' = "duplicate" =>
        LET node == FindNode(nodes, lastArg'[1])[1]
            new == nodes'[Len(nodes')]
        IN  /\ Len(nodes') = Len(nodes) + 1
            /\ SubSeq(nodes', 1, Len(nodes)) = nodes
            /\ new.id \notin NodeIds(nodes)
            /\ new.label = node.label
            /\ new.color = node.color
            /\ new.isPortal = node.isPortal
            /\ new.x = node.x + 40 /\ new.y = node.y + 40
            /\ edges' = edges
            /\ files' = files]_vars

\* C29 as the code has it: duplicate(nodeId) appends one node with the
\* colour and portal flag of nodeId and its label followed by " (copy)", 40
\* right of and 40 below it, and leaves the edges and the documents as they
\* were.
C29_DuplicateCopyLabel ==
    [][lastAct' = "duplicate" =>
        LET node == FindNode(nodes, lastArg'[1])[1]
            new == nodes'[Len(nodes')]
        IN  /\ Len(nodes') = Len(nodes) + 1
            /\ SubSeq(nodes', 1, Len(nodes)) = nodes
            /\ new.id \notin NodeIds(nodes)
            /\ new.label = node.label \o " (copy)"
            /\ new.color = node.color
            /\ new.isPortal = node.isPortal
            /\ new.x = node.x + 40 /\ new.y = node.y + 40
            /\ edges' = edges
            /\ files' = files]_vars

\* the copy of an imported node that has a colour and the portal flag
C29_Witness ==
    /\ lastAct = "duplicate"
    /\ Len(nodes) = 2
    /\ nodes[2].label = "Imported (copy)"
    /\ nodes[2].color # "" /\ nodes[2].color = nodes[1].color
    /\ nodes[2].isPortal
    /\ nodes[2].x = nodes[1].x + 40 /\ nodes[2].y = nodes[1].y + 40

\* C30: auto-layout leaves the pre-layout (nodes, edges) pair on top of the
\* undo stack, keeps the edges and, node by node, everything but x and y,
\* and leaves the canvas of a document without nodes as it was.
C30_AutoLayout ==
    [][lastAct' = "autoLayout" =>
        /\ undoStack' # <<>>
        /\ undoStack'[Len(undoStack')] = Pair(nodes, edges)
        /\ edges' = edges
        /\ Len(nodes') = Len(nodes)
        /\ \A i \in 1..Len(nodes) : [nodes'[i] EXCEPT !.x = nodes[i].x, !.y = nodes[i].y] = nodes[i]
        /\ nodes = <<>> => (nodes' = nodes /\ files' = files)]_vars

\* a layout that moved a node of a graph with an edge
C30_Witness ==
    /\ lastAct = "autoLayout"
    /\ edges # <<>>
    /\ Len(nodes) >= 2
    /\ undoStack # <<>>
    /\ undoStack[Len(undoStack)].edges = edges
    /\ undoStack[Len(undoStack)].nodes # nodes

C32_LockedAndOrderKept ==
    \A r \in Range(callResult) \cup Range(mid) :
        LET in == callArgs[1].ns
        IN  /\ Len(r.ns) = Len(in)
            /\ \A k \in 1..Len(in) :
                /\ r.ns[k].id = in[k].id
                /\ in[k].id = callArgs[1].lockedId => r.ns[k] = in[k]

\* a call that moved a node away from the locked node it overlapped
C32_Witness ==
    /\ callResult # <<>>
    /\ callResult[1].ns # callArgs[1].ns
    /\ \E k, l \in 1..Len(callArgs[1].ns) :
        /\ k # l
        /\ callArgs[1].ns[k].id = callArgs[1].lockedId
        /\ overlaps(callArgs[1].ns[k], callArgs[1].ns[l])
        /\ ~overlaps(callResult[1].ns[k], callResult[1].ns[l])

\* C33: resolveCollisions moves nodes along one axis: in orgchart mode y stays
\* and x changes by a multiple of APPROX_NODE_W + COLLISION_PAD, in the other
\* modes x stays and y changes by a multiple of APPROX_NODE_H + COLLISION_PAD.
\* One step moves nodes[j] by one such unit, to the greater coordinate exactly
\* when its centre is at or beyond the centre of nodes[i] on that axis.
C33_OneAxis ==
    /\ \A r \in Range(callResult) :
        \A k \in 1..Len(callArgs[1].ns) :
            LET a == callArgs[1].ns[k]
                b == r.ns[k]
            IN  IF callArgs[1].mode = "orgchart"
                THEN b.y = a.y /\ (b.x - a.x) % (APPROX_NODE_W + COLLISION_PAD) = 0
                ELSE b.x = a.x /\ (b.y - a.y) % (APPROX_NODE_H + COLLISION_PAD) = 0
    /\ \A r \in Range(mid) :
        r.moved =>
            LET a == callArgs[1].ns[lastArg[1]]
                b == callArgs[1].ns[lastArg[2]]
                c == r.ns[lastArg[2]]
            IN  IF callArgs[1].mode = "orgchart"
                THEN /\ c.y = b.y
                     /\ c.x - b.x = IF b.x + APPROX_NODE_W \div 2 >= a.x + APPROX_NODE_W \div 2
                                    THEN APPROX_NODE_W + COLLISION_PAD
                                    ELSE 0 - (APPROX_NODE_W + COLLISION_PAD)
                ELSE /\ c.x = b.x
                     /\ c.y - b.y = IF b.y + APPROX_NODE_H \div 2 >= a.y + APPROX_NODE_H \div 2
                                    THEN APPROX_NODE_H + COLLISION_PAD
                                    ELSE 0 - (APPROX_NODE_H + COLLISION_PAD)

\* a step that pushed a node to the smaller coordinate
C33_Witness ==
    /\ mid # <<>>
    /\ mid[1].moved
    /\ \/ mid[1].ns[lastArg[2]].x < callArgs[1].ns[lastArg[2]].x
       \/ mid[1].ns[lastArg[2]].y < callArgs[1].ns[lastArg[2]].y

\* C34: when resolveCollisions leaves its loop because a pass moved nothing,
\* no two node rectangles of the result overlap, the locked node's included;
\* overlaps remain only after the loop ran all MAX_PASSES passes.
C34_SettledNoOverlap ==
    \A r \in Range(callResult) :
        (r.settled \/ r.iters < MAX_PASSES) =>
            \A k, l \in 1..Len(r.ns) : k # l => ~overlaps(r.ns[k], r.ns[l])

\* a call with a locked node that moved nodes in two passes and then settled
C34_Witness ==
    /\ callResult # <<>>
    /\ callResult[1].settled
    /\ callResult[1].iters >= 3
    /\ callArgs[1].lockedId # NULL
    /\ \E l \in 1..Len(callArgs[1].ns) :
        /\ callArgs[1].ns[l].id # callArgs[1].lockedId
        /\ overlaps(callArgs[1].ns[callArgs[1].lockedId], callArgs[1].ns[l])

\* C35: whenever the breadcrumb is not empty its last element is the active
\* document id and each of its elements is the id of a stored document.
C35_BreadcrumbTracksActive ==
    breadcrumb # <<>> =>
        /\ breadcrumb[Len(breadcrumb)] = activeFileId
        /\ \A k \in 1..Len(breadcrumb) : HasFile(files, breadcrumb[k])

\* C36: a click on breadcrumb entry i pops only while the breadcrumb is longer
\* than i + 1 entries, and returns with the first i + 1 entries of the
\* breadcrumb it was clicked on and with the document at index i active.
C36_CrumbClick ==
    [][/\ lastAct' = "crumbPop" => Len(breadcrumb) > callArgs[1].i + 1
       /\ lastAct' = "crumbDone" =>
            /\ breadcrumb' = SubSeq(callArgs[1].store.breadcrumb, 1, callArgs[1].i + 1)
            /\ activeFileId' = callArgs[1].store.breadcrumb[callArgs[1].i + 1]]_vars

\* C39: a double-click that opens a portal node in the active document D
\* activates a document whose parentFileId is D and whose parentNodeId is the
\* node's id; consecutive breadcrumb entries are parent and child, and no
\* document is in the breadcrumb twice.
C39_PortalOpensChild ==
    [][lastAct' = "doubleClick" =>
        /\ \E f \in Range(files) :
            /\ f.id = activeFileId'
            /\ f.parentFileId = activeFileId
            /\ f.parentNodeId = lastArg'[1]
        /\ \A k \in 1..(Len(breadcrumb') - 1) :
            \E f \in Range(files) :
                f.id = breadcrumb'[k + 1] /\ f.parentFileId = breadcrumb'[k]
        /\ \A k, l \in 1..Len(breadcrumb') : k # l => breadcrumb'[k] # breadcrumb'[l]]_vars

\* C37: one key press runs its operation once: Ctrl/Cmd+Z takes one snapshot
\* off the undo stack (none when undo does nothing), Ctrl/Cmd+Shift+Z one off
\* the redo stack, Ctrl/Cmd+X pushes one snapshot of the canvas.
C37_OneKeyOneOperation ==
    [][/\ lastAct' = "keyUndo" =>
            /\ Len(undoStack') >= Len(undoStack) - 1
            /\ Len(redoStack') <= Len(redoStack) + 1
       /\ lastAct' = "keyRedo" =>
            /\ Len(redoStack') >= Len(redoStack) - 1
            /\ Len(undoStack') <= Len(undoStack) + 1
       /\ lastAct' = "keyCut" =>
            undoStack' = pushUndo(undoStack, Pair(nodes, edges))]_vars

\* C38: a label or colour edit made while a save of the canvas is pending
\* loses nothing of the canvas: every node and every edge the canvas had is
\* still on the canvas afterwards.
C38_NoLostUpdate ==
    [][(lastAct' \in {"commitLabel", "setColor"} /\ saveTimeout # <<>>) =>
        /\ NodeIds(nodes) \subseteq NodeIds(nodes')
        /\ Range(edges) \subseteq Range(edges')]_vars
====
